---- MODULE Spec2Model ----
(***************************************************************************)
(* Model of the application state engine of opencode-ide:                  *)
(* src/application/store.ts (state, appReducer, Store.dispatch).           *)
(*                                                                         *)
(* Conventions.                                                            *)
(*  - A JavaScript value "T | null" is Null (the empty tuple) or Some(v).  *)
(*  - A generated identifier `tab-${n}` is the pair <<"tab", n>>, so an    *)
(*    identifier never equals Null; `string | null` identifiers are stored *)
(*    unwrapped.                                                           *)
(*  - A string the code takes apart (a path, a command line) is a sequence *)
(*    of one-letter strings; one it only compares (content) is a string.   *)
(*  - A JavaScript Map is the sequence of its entries in insertion order.  *)
(*  - Array indices are 0-based as in the code; element i of a JavaScript  *)
(*    array a is a[i + 1] here.                                            *)
(***************************************************************************)
EXTENDS Integers, Sequences, FiniteSets, TLC

\* Highest value the id counters may take in a run.
MaxIds == 3
\* Most dispatches of a run that notifies listeners.
MaxDispatches == 3
\* Most entries, deleted ones included, the listener set's list may hold.
MaxSlots == 3
\* Longest generated command-line input.
MaxInputLen == 4
\* Most commands awaiting an external operation at a time.
MaxTasks == 1
\* Most file.open executions started from the explorer and still running.
MaxOpens == 2
\* Chunks of output a pseudo-terminal's process writes.
MaxChunks == 2

VARIABLES
    state,       \* Store.state, the AppState snapshot
    bufferId,    \* module counter `bufferId`
    tabId,       \* module counter `tabId`
    terminalId,  \* module counter `terminalId`
    raised,      \* TRUE iff the last dispatch ended by an exception
    last,        \* the action given to the last dispatch
    prev,        \* the snapshot the last dispatch started from
    saved,       \* per buffer id, the content last loaded or saved
    listeners,   \* Store.listeners: the Set's entry list, Some(listener)
                 \* or Null where deleted
    passes,      \* the notification loops in progress, innermost last
    version,     \* number of the dispatch that produced `state`
    observed,    \* per listener, the versions it was called with
    finished,    \* the notification loop that ended last
    input,       \* the text given to executeCommandLine last
    parsed,      \* what executeCommandLine did with it
    tasks,       \* the commands awaiting an external operation
    files,       \* the file system: per path, Null or Some(content)
    stdout,      \* spawnPty: the chunks proc.stdout holds, not yet read
    delivered,   \* the chunks readStdout has read so far
    dataCallbacks,  \* spawnPty dataCallbacks; a callback is modelled by
                    \* what it has been called with
    exitCallbacks,  \* spawnPty exitCallbacks, likewise
    exited,      \* proc.exited: Null while pending, Some(code) once resolved
    exitHandled, \* TRUE once the `then` callback of proc.exited has run
    cache,       \* JsonSettingsAdapter.cache: Null or Some(settings)
    settingsFile,  \* the settings file: Null or Some(content)
    setting,     \* the call of set awaiting its save: Null or Some(call)
    returned,    \* the settings call that ended last, with its outcome,
                 \* while no other is in progress
    objects,     \* the settings objects load has made, in order of creation
    thisCache,   \* concurrent calls: the object this.cache refers to, as
                 \* its place in `objects`, 0 for null
    calls,       \* the calls of set made, each with the place it has
                 \* reached
    exitCode     \* Null while the process runs, Some(code) once
                 \* cleanupAndExit has called process.exit(code)

storeVars == <<state, bufferId, tabId, terminalId, raised, last, prev, saved>>
notifyVars == <<listeners, passes, version, observed, finished>>
commandVars == <<input, parsed, tasks, files>>
ptyVars ==
    <<stdout, delivered, dataCallbacks, exitCallbacks, exited, exitHandled>>
settingsVars == <<cache, settingsFile, setting, returned>>
setVars == <<objects, thisCache, calls>>
adapterVars == <<ptyVars, settingsVars, setVars, exitCode>>
vars == <<storeVars, notifyVars, commandVars, adapterVars>>

----------------------------------------------------------------------------
\* Values

Null == <<>>
Some(v) == <<v>>

Min(a, b) == IF a <= b THEN a ELSE b

\* Least element of a set of indices, 0 when the set is empty.
FirstOf(S) == IF S = {} THEN 0 ELSE CHOOSE i \in S : \A j \in S : i <= j

\* Array.prototype.findIndex over the 1-based index set S of the matching
\* elements: the 0-based index of the first match, -1 when none matches.
findIndex(S) == FirstOf(S) - 1

\* String.prototype.toLowerCase
toLowerCase(s) ==
    LET upper == <<"A","B","C","D","E","F","G","H","I","J","K","L","M",
                   "N","O","P","Q","R","S","T","U","V","W","X","Y","Z">>
        lower == <<"a","b","c","d","e","f","g","h","i","j","k","l","m",
                   "n","o","p","q","r","s","t","u","v","w","x","y","z">>
    IN [i \in DOMAIN s |->
           IF \E j \in DOMAIN upper : upper[j] = s[i]
           THEN lower[CHOOSE j \in DOMAIN upper : upper[j] = s[i]]
           ELSE s[i]]

\* String.prototype.split on a one-letter separator.
RECURSIVE split(_, _)
split(s, sep) ==
    LET hits == {i \in DOMAIN s : s[i] = sep}
    IN IF hits = {} THEN <<s>>
       ELSE LET i == FirstOf(hits)
            IN <<SubSeq(s, 1, i - 1)>> \o split(SubSeq(s, i + 1, Len(s)), sep)

----------------------------------------------------------------------------
\* Map<string, V> as the sequence of its entries, in insertion order.

MapKeys(m) == {m[i].key : i \in DOMAIN m}
MapHas(m, k) == k \in MapKeys(m)
MapGet(m, k) == m[FirstOf({i \in DOMAIN m : m[i].key = k})].value
MapSet(m, k, v) ==
    IF MapHas(m, k)
    THEN [i \in DOMAIN m |-> IF m[i].key = k THEN [key |-> k, value |-> v] ELSE m[i]]
    ELSE Append(m, [key |-> k, value |-> v])
MapDeleteKeep(e, k) == e.key # k
MapDelete(m, k) == SelectSeq(m, LAMBDA e : MapDeleteKeep(e, k))

----------------------------------------------------------------------------
\* Initial state

createInitialPane ==
    [id |-> "main-pane", type |-> "editor", tabs |-> <<>>,
     activeTabId |-> Null, size |-> 100]

createInitialLayout ==
    [root |-> [type |-> "leaf", pane |-> createInitialPane]]

createInitialState ==
    [workspace   |-> [rootPath |-> Null, directoryTree |-> Null],
     buffers     |-> <<>>,
     layout      |-> createInitialLayout,
     theme       |-> "tokyo-night",
     focusTarget |-> "editor",
     commandLine |-> [isOpen |-> FALSE, value |-> <<>>],
     palette     |-> [isOpen |-> FALSE, query |-> "", items |-> <<>>],
     terminals   |-> <<>>,
     diagnostics |-> <<>>]

----------------------------------------------------------------------------
\* Helpers

generateBufferId(n) == <<"buffer", n + 1>>
\* Mutant of generateTabId: the counter wraps around after two identifiers.
generateTabId_Wrapping(n) == <<"tab", (n % 2) + 1>>
generateTabId(n) == <<"tab", n + 1>>
generateTerminalId(n) == <<"terminal", n + 1>>

\* findPane of getActivePane: the first leaf in pre-order, as Some(pane).
RECURSIVE findPane(_)
findPane(node) ==
    IF node.type = "leaf" THEN Some(node.pane)
    ELSE LET found == {i \in DOMAIN node.children : findPane(node.children[i]) # Null}
         IN IF found = {} THEN Null ELSE findPane(node.children[FirstOf(found)])

getActivePane(layout) == findPane(layout.root)

\* The panes of the leaves of a layout node.
RECURSIVE panesOf(_)
panesOf(node) ==
    IF node.type = "leaf" THEN {node.pane}
    ELSE UNION {panesOf(node.children[i]) : i \in DOMAIN node.children}

\* updater is a function on the panes of the tree (the code's closure).
RECURSIVE updatePaneInLayout(_, _, _)
updatePaneInLayout(node, paneId, updater) ==
    IF node.type = "leaf"
    THEN IF node.pane.id = paneId
         THEN [type |-> "leaf", pane |-> updater[node.pane]]
         ELSE node
    ELSE [node EXCEPT !.children =
            [i \in DOMAIN node.children |->
                updatePaneInLayout(node.children[i], paneId, updater)]]

\* Mutant of basename: the whole path is kept.
basename_Whole(path) == path

\* basename: the text after the last "/", or the whole path when that is
\* empty.
basename(path) ==
    LET parts == split(path, "/")
    IN IF parts[Len(parts)] # <<>> THEN parts[Len(parts)] ELSE path

\* The extension table of detectLanguage, as <<extension, language>> pairs.
languageMap ==
    { << <<"t","s">>, "typescript" >>,
      << <<"t","s","x">>, "typescriptreact" >>,
      << <<"j","s">>, "javascript" >>,
      << <<"j","s","x">>, "javascriptreact" >>,
      << <<"p","y">>, "python" >>,
      << <<"g","o">>, "go" >>,
      << <<"r","s">>, "rust" >>,
      << <<"m","d">>, "markdown" >>,
      << <<"j","s","o","n">>, "json" >>,
      << <<"y","a","m","l">>, "yaml" >>,
      << <<"y","m","l">>, "yaml" >>,
      << <<"h","t","m","l">>, "html" >>,
      << <<"c","s","s">>, "css" >>,
      << <<"s","c","s","s">>, "scss" >>,
      << <<"l","e","s","s">>, "less" >>,
      << <<"s","h">>, "shellscript" >>,
      << <<"b","a","s","h">>, "shellscript" >>,
      << <<"z","s","h">>, "shellscript" >> }

detectLanguage(path) ==
    LET parts == split(path, ".")
        ext == toLowerCase(parts[Len(parts)])
    IN IF ext # <<>> /\ \E e \in languageMap : e[1] = ext
       THEN Some((CHOOSE e \in languageMap : e[1] = ext)[2])
       ELSE Null

\* What a reducer call produces: the returned snapshot and the counters
\* after the call, or an exception (the counters it consumed are kept).
Return(s, b, t, m) ==
    [state |-> s, bufferId |-> b, tabId |-> t, terminalId |-> m, raised |-> FALSE]
Throw(s, b, t, m) ==
    [state |-> s, bufferId |-> b, tabId |-> t, terminalId |-> m, raised |-> TRUE]

----------------------------------------------------------------------------
\* Reducer cases.  Each takes the snapshot, the action and the three counters.

\* p with activeTabId = id and isActive recomputed from id (the updater of
\* OPEN_FILE's already-open branch and of SWITCH_TAB).
activateIn(p, id) ==
    [p EXCEPT !.activeTabId = id,
              !.tabs = [j \in DOMAIN p.tabs |->
                          [p.tabs[j] EXCEPT !.isActive = (p.tabs[j].id = id)]]]

\* p with newTab appended and active, all others inactive (the updater of
\* OPEN_FILE's new-buffer branch and of NEW_FILE).
appendActiveIn(p, newTab) ==
    [p EXCEPT !.activeTabId = newTab.id,
              !.tabs = Append([j \in DOMAIN p.tabs |->
                                 [p.tabs[j] EXCEPT !.isActive = FALSE]], newTab)]

withLayoutRoot(s, root) == [s EXCEPT !.layout = [root |-> root]]

\* Mutant of alreadyOpen: the "already open" check never succeeds.
alreadyOpen_Never(s, path) == {}

\* The positions in the buffer table at which OPEN_FILE's "already open" loop
\* returns: a buffer of that path with a tab in the active pane.
alreadyOpen(s, path) ==
    LET pane == getActivePane(s.layout)
    IN {i \in DOMAIN s.buffers :
          /\ s.buffers[i].value.filePath = Some(path)
          /\ pane # Null
          /\ \E j \in DOMAIN pane[1].tabs :
                pane[1].tabs[j].bufferId = s.buffers[i].key}

OPEN_FILE(s, action, b, t, m) ==
    LET path == action.path
        pane == getActivePane(s.layout)
        hits == alreadyOpen(s, path)
    IN IF hits # {}
       THEN LET id == s.buffers[FirstOf(hits)].key
                tabs == pane[1].tabs
                existingTab ==
                    tabs[FirstOf({j \in DOMAIN tabs : tabs[j].bufferId = id})]
                updater == [p \in panesOf(s.layout.root) |->
                              activateIn(p, existingTab.id)]
                newRoot == updatePaneInLayout(s.layout.root, pane[1].id, updater)
            IN Return([withLayoutRoot(s, newRoot) EXCEPT !.focusTarget = "editor"],
                      b, t, m)
       ELSE LET newBufferId == generateBufferId(b)
                newBuffer == [id |-> newBufferId,
                              filePath |-> Some(path),
                              content |-> "",
                              isDirty |-> FALSE,
                              language |-> detectLanguage(path),
                              cursorPosition |-> [line |-> 0, column |-> 0, offset |-> 0],
                              selection |-> Null]
                newTab == [id |-> generateTabId(t),
                           bufferId |-> newBufferId,
                           label |-> basename(path),
                           isActive |-> TRUE,
                           isPinned |-> FALSE]
                newBuffers == MapSet(s.buffers, newBufferId, newBuffer)
            IN IF pane = Null THEN Return(s, b + 1, t + 1, m)
               ELSE LET updater == [p \in panesOf(s.layout.root) |->
                                      appendActiveIn(p, newTab)]
                        newRoot == updatePaneInLayout(s.layout.root, pane[1].id, updater)
                    IN Return([withLayoutRoot(s, newRoot) EXCEPT
                                  !.buffers = newBuffers,
                                  !.focusTarget = "editor"],
                              b + 1, t + 1, m)

SAVE_FILE(s, action, b, t, m) ==
    IF ~MapHas(s.buffers, action.bufferId) THEN Return(s, b, t, m)
    ELSE LET buffer == MapGet(s.buffers, action.bufferId)
         IN Return([s EXCEPT !.buffers =
                        MapSet(s.buffers, action.bufferId,
                               [buffer EXCEPT !.isDirty = FALSE])],
                   b, t, m)

\* Mutant of isBufferUsedElsewhere: the buffer of a closed tab is always kept.
isBufferUsedElsewhere_Always(newTabs, closingTab) == TRUE

isBufferUsedElsewhere(newTabs, closingTab) ==
    \E j \in DOMAIN newTabs : newTabs[j].bufferId = closingTab.bufferId

\* Mutant of adjacentIndex: the tab to the left of the closed one.
adjacentIndex_Left(tabIndex, newLength) ==
    IF tabIndex = 0 THEN 0 ELSE tabIndex - 1

\* newIndex of CLOSE_TAB ("Activate adjacent tab").
adjacentIndex(tabIndex, newLength) == Min(tabIndex, newLength - 1)

CLOSE_TAB(s, action, b, t, m) ==
    LET pane == getActivePane(s.layout)
    IN IF pane = Null THEN Return(s, b, t, m)
       ELSE
       LET tabs == pane[1].tabs
           tabIndex == findIndex({j \in DOMAIN tabs : tabs[j].id = action.tabId})
       IN IF tabIndex = -1 THEN Return(s, b, t, m)
          ELSE
          LET closingTab == tabs[tabIndex + 1]
              newTabs == SelectSeq(tabs, LAMBDA x : x.id # action.tabId)
              newBuffers == IF ~isBufferUsedElsewhere(newTabs, closingTab)
                            THEN MapDelete(s.buffers, closingTab.bufferId)
                            ELSE s.buffers
              newActiveTabId ==
                  IF Len(newTabs) > 0
                  THEN IF closingTab.isActive
                       THEN newTabs[adjacentIndex(tabIndex, Len(newTabs)) + 1].id
                       ELSE pane[1].activeTabId
                  ELSE Null
              updater == [p \in panesOf(s.layout.root) |->
                            [p EXCEPT !.activeTabId = newActiveTabId,
                                      !.tabs = [j \in DOMAIN newTabs |->
                                                  [newTabs[j] EXCEPT !.isActive =
                                                      (newTabs[j].id = newActiveTabId)]]]]
              newRoot == updatePaneInLayout(s.layout.root, pane[1].id, updater)
          IN Return([withLayoutRoot(s, newRoot) EXCEPT !.buffers = newBuffers],
                    b, t, m)

NEW_FILE(s, action, b, t, m) ==
    LET newBufferId == generateBufferId(b)
        newBuffer == [id |-> newBufferId,
                      filePath |-> Null,
                      content |-> "",
                      isDirty |-> FALSE,
                      language |-> Null,
                      cursorPosition |-> [line |-> 0, column |-> 0, offset |-> 0],
                      selection |-> Null]
        newTab == [id |-> generateTabId(t),
                   bufferId |-> newBufferId,
                   label |-> <<"U","n","t","i","t","l","e","d">>,
                   isActive |-> TRUE,
                   isPinned |-> FALSE]
        newBuffers == MapSet(s.buffers, newBufferId, newBuffer)
        pane == getActivePane(s.layout)
    IN IF pane = Null THEN Return(s, b + 1, t + 1, m)
       ELSE LET updater == [p \in panesOf(s.layout.root) |-> appendActiveIn(p, newTab)]
                newRoot == updatePaneInLayout(s.layout.root, pane[1].id, updater)
            IN Return([withLayoutRoot(s, newRoot) EXCEPT
                          !.buffers = newBuffers,
                          !.focusTarget = "editor"],
                      b + 1, t + 1, m)

\* Mutant of isDirtyAfter: a sticky flag, only set by a content change.
isDirtyAfter_Sticky(buffer, content) ==
    buffer.isDirty \/ buffer.content # content

\* isDirty of SET_BUFFER_CONTENT.
isDirtyAfter(buffer, content) == buffer.content # content

SET_BUFFER_CONTENT(s, action, b, t, m) ==
    IF ~MapHas(s.buffers, action.bufferId) THEN Return(s, b, t, m)
    ELSE LET buffer == MapGet(s.buffers, action.bufferId)
         IN Return([s EXCEPT !.buffers =
                        MapSet(s.buffers, action.bufferId,
                               [buffer EXCEPT
                                   !.content = action.content,
                                   !.isDirty = isDirtyAfter(buffer, action.content)])],
                   b, t, m)

SET_CURSOR(s, action, b, t, m) ==
    IF ~MapHas(s.buffers, action.bufferId) THEN Return(s, b, t, m)
    ELSE LET buffer == MapGet(s.buffers, action.bufferId)
         IN Return([s EXCEPT !.buffers =
                        MapSet(s.buffers, action.bufferId,
                               [buffer EXCEPT !.cursorPosition = action.position])],
                   b, t, m)

SET_SELECTION(s, action, b, t, m) ==
    IF ~MapHas(s.buffers, action.bufferId) THEN Return(s, b, t, m)
    ELSE LET buffer == MapGet(s.buffers, action.bufferId)
         IN Return([s EXCEPT !.buffers =
                        MapSet(s.buffers, action.bufferId,
                               [buffer EXCEPT !.selection = action.selection])],
                   b, t, m)

SET_FOCUS(s, action, b, t, m) ==
    Return([s EXCEPT !.focusTarget = action.target], b, t, m)

SWITCH_TAB(s, action, b, t, m) ==
    LET pane == getActivePane(s.layout)
    IN IF pane = Null THEN Return(s, b, t, m)
       ELSE LET updater == [p \in panesOf(s.layout.root) |->
                              activateIn(p, action.tabId)]
                newRoot == updatePaneInLayout(s.layout.root, pane[1].id, updater)
            IN Return(withLayoutRoot(s, newRoot), b, t, m)

\* Mutant of nextIndexOf: no wrap at the end of the list.
nextIndexOf_NoWrap(currentIndex, length) == Min(currentIndex + 1, length - 1)

\* nextIndex of NEXT_TAB.
nextIndexOf(currentIndex, length) == (currentIndex + 1) % length

NEXT_TAB(s, action, b, t, m) ==
    LET pane == getActivePane(s.layout)
    IN IF pane = Null \/ Len(pane[1].tabs) = 0 THEN Return(s, b, t, m)
       ELSE LET tabs == pane[1].tabs
                currentIndex == findIndex({j \in DOMAIN tabs : tabs[j].isActive})
                nextIndex == nextIndexOf(currentIndex, Len(tabs))
            IN IF nextIndex + 1 \notin DOMAIN tabs
               THEN Throw(s, b, t, m)   \* nextTab is undefined: nextTab.id throws
               ELSE SWITCH_TAB(s, [type |-> "SWITCH_TAB",
                                   tabId |-> tabs[nextIndex + 1].id], b, t, m)

\* Mutant of prevIndexOf: no wrap at the start of the list.
prevIndexOf_NoWrap(currentIndex, length) ==
    IF currentIndex = 0 THEN 0 ELSE currentIndex - 1

\* prevIndex of PREV_TAB.
prevIndexOf(currentIndex, length) ==
    IF currentIndex = 0 THEN length - 1 ELSE currentIndex - 1

PREV_TAB(s, action, b, t, m) ==
    LET pane == getActivePane(s.layout)
    IN IF pane = Null \/ Len(pane[1].tabs) = 0 THEN Return(s, b, t, m)
       ELSE LET tabs == pane[1].tabs
                currentIndex == findIndex({j \in DOMAIN tabs : tabs[j].isActive})
                prevIndex == prevIndexOf(currentIndex, Len(tabs))
            IN IF prevIndex + 1 \notin DOMAIN tabs
               THEN Throw(s, b, t, m)   \* prevTab is undefined: prevTab.id throws
               ELSE SWITCH_TAB(s, [type |-> "SWITCH_TAB",
                                   tabId |-> tabs[prevIndex + 1].id], b, t, m)

\* Mutant of deactivated: the terminal keeps its flag.
deactivated_Kept(term) == term

\* { ...term, isActive: false }
deactivated(term) == [term EXCEPT !.isActive = FALSE]

OPEN_TERMINAL(s, action, b, t, m) ==
    LET id == generateTerminalId(m)
        terminal == [id |-> id,
                     title |-> "Terminal",
                     cwd |-> IF s.workspace.rootPath # Null
                                  /\ s.workspace.rootPath # Some(<<>>)
                             THEN s.workspace.rootPath[1]
                             ELSE <<"/", "w">>,   \* process.cwd(): "/w"
                     isActive |-> TRUE]
        others == [i \in DOMAIN s.terminals |->
                      [key |-> s.terminals[i].key,
                       value |-> deactivated(s.terminals[i].value)]]
    IN Return([s EXCEPT !.terminals = MapSet(others, id, terminal),
                        !.focusTarget = "terminal"],
              b, t, m + 1)

CLOSE_TERMINAL(s, action, b, t, m) ==
    LET newTerminals == MapDelete(s.terminals, action.terminalId)
        wasActive == /\ MapHas(s.terminals, action.terminalId)
                     /\ MapGet(s.terminals, action.terminalId).isActive
        first == newTerminals[1].value
    IN IF wasActive
       THEN IF Len(newTerminals) > 0
            THEN Return([s EXCEPT !.terminals =
                            MapSet(newTerminals, first.id,
                                   [first EXCEPT !.isActive = TRUE])],
                        b, t, m)
            ELSE Return([s EXCEPT !.terminals = newTerminals,
                                  !.focusTarget = "editor"], b, t, m)
       ELSE Return([s EXCEPT !.terminals = newTerminals], b, t, m)

FOCUS_TERMINAL(s, action, b, t, m) ==
    Return([s EXCEPT !.terminals =
               [i \in DOMAIN s.terminals |->
                   [key |-> s.terminals[i].key,
                    value |-> [s.terminals[i].value EXCEPT
                                  !.isActive = (s.terminals[i].key
                                                   = action.terminalId)]]],
                     !.focusTarget = "terminal"],
           b, t, m)

\* Mutant of toggleInTree: the children of the node found are toggled too.
RECURSIVE toggleInTree_Deep(_, _)
toggleInTree_Deep(node, path) ==
    [node EXCEPT
        !.isExpanded = IF node.entry.path = path THEN ~@ ELSE @,
        !.children = [i \in DOMAIN node.children |->
                         toggleInTree_Deep(node.children[i],
                                           IF node.entry.path = path
                                           THEN node.children[i].entry.path
                                           ELSE path)]]

\* The closure toggleInTree of TOGGLE_DIRECTORY, for action.path = path.
RECURSIVE toggleInTree(_, _)
toggleInTree(node, path) ==
    IF node.entry.path = path
    THEN [node EXCEPT !.isExpanded = ~node.isExpanded]
    ELSE [node EXCEPT !.children =
             [i \in DOMAIN node.children |->
                 toggleInTree(node.children[i], path)]]

TOGGLE_DIRECTORY(s, action, b, t, m) ==
    IF s.workspace.directoryTree = Null THEN Return(s, b, t, m)
    ELSE Return([s EXCEPT !.workspace.directoryTree =
                    Some(toggleInTree(s.workspace.directoryTree[1],
                                      action.path))],
                b, t, m)

\* Mutant of unhandled: an action without an implementation is an error.
unhandled_Throws(s, b, t, m) == Throw(s, b, t, m)

\* `return state` of REFRESH_TREE, of SPLIT_PANE, CLOSE_PANE, RESIZE_PANE
\* and of the default branch.
unhandled(s, b, t, m) == Return(s, b, t, m)

\* The switch of appReducer.  The file picker and theme picker actions of
\* AppAction, SET_DIRECTORY_TREE and LOAD_DIRECTORY_CHILDREN have no case and
\* take the default branch.
appReducer(s, action, b, t, m) ==
    CASE action.type = "OPEN_FILE"          -> OPEN_FILE(s, action, b, t, m)
      [] action.type = "SAVE_FILE"          -> SAVE_FILE(s, action, b, t, m)
      [] action.type = "CLOSE_TAB"          -> CLOSE_TAB(s, action, b, t, m)
      [] action.type = "NEW_FILE"           -> NEW_FILE(s, action, b, t, m)
      [] action.type = "SET_BUFFER_CONTENT" -> SET_BUFFER_CONTENT(s, action, b, t, m)
      [] action.type = "SET_CURSOR"         -> SET_CURSOR(s, action, b, t, m)
      [] action.type = "SET_SELECTION"      -> SET_SELECTION(s, action, b, t, m)
      [] action.type = "SET_FOCUS"          -> SET_FOCUS(s, action, b, t, m)
      [] action.type = "SWITCH_TAB"         -> SWITCH_TAB(s, action, b, t, m)
      [] action.type = "NEXT_TAB"           -> NEXT_TAB(s, action, b, t, m)
      [] action.type = "PREV_TAB"           -> PREV_TAB(s, action, b, t, m)
      [] action.type = "OPEN_COMMAND_LINE"  ->
            Return([s EXCEPT !.commandLine = [isOpen |-> TRUE, value |-> <<>>],
                             !.focusTarget = "commandLine"], b, t, m)
      [] action.type \in {"CLOSE_COMMAND_LINE", "EXECUTE_COMMAND"} ->
            Return([s EXCEPT !.commandLine = [isOpen |-> FALSE, value |-> <<>>],
                             !.focusTarget = "editor"], b, t, m)
      [] action.type = "SET_COMMAND_LINE_VALUE" ->
            Return([s EXCEPT !.commandLine.value = action.value], b, t, m)
      [] action.type = "OPEN_PALETTE"       ->
            Return([s EXCEPT !.palette = [isOpen |-> TRUE, query |-> "",
                                          items |-> <<>>],
                             !.focusTarget = "palette"], b, t, m)
      [] action.type = "CLOSE_PALETTE"      ->
            Return([s EXCEPT !.palette = [isOpen |-> FALSE, query |-> "",
                                          items |-> <<>>],
                             !.focusTarget = "editor"], b, t, m)
      [] action.type = "SET_PALETTE_QUERY"  ->
            Return([s EXCEPT !.palette.query = action.query], b, t, m)
      [] action.type = "SET_THEME"          ->
            IF action.themeId \in {"tokyo-night", "catppuccin-mocha",
                                   "dracula", "one-light"}
            THEN Return([s EXCEPT !.theme = action.themeId], b, t, m)
            ELSE Return(s, b, t, m)
      [] action.type = "TOGGLE_THEME"       ->
            LET defaultThemes == <<"tokyo-night", "catppuccin-mocha",
                                   "dracula", "one-light">>
                currentIndex == findIndex({i \in DOMAIN defaultThemes :
                                             defaultThemes[i] = s.theme})
                nextIndex == (currentIndex + 1) % Len(defaultThemes)
            IN Return([s EXCEPT !.theme = defaultThemes[nextIndex + 1]],
                      b, t, m)
      [] action.type = "OPEN_TERMINAL"      -> OPEN_TERMINAL(s, action, b, t, m)
      [] action.type = "CLOSE_TERMINAL"     -> CLOSE_TERMINAL(s, action, b, t, m)
      [] action.type = "SET_WORKSPACE"      ->
            Return([s EXCEPT !.workspace = [rootPath |-> Some(action.path),
                                            directoryTree |-> Null]],
                   b, t, m)
      [] action.type = "TOGGLE_DIRECTORY"   ->
            TOGGLE_DIRECTORY(s, action, b, t, m)
      [] action.type = "FOCUS_TERMINAL"     -> FOCUS_TERMINAL(s, action, b, t, m)
      [] action.type \in {"REFRESH_TREE", "SPLIT_PANE", "CLOSE_PANE",
                          "RESIZE_PANE"}    -> unhandled(s, b, t, m)
      [] OTHER                              -> unhandled(s, b, t, m)

----------------------------------------------------------------------------
\* Inputs of the dispatched actions

\* "/a.ts" and "/b.MD"
PathA == <<"/","a",".","t","s">>
PathB == <<"/","b",".","M","D">>
Paths == {PathA, PathB}

\* Identifiers the counters can produce within the bound, and tab-0 /
\* buffer-0, which no counter ever produces.
TabIdInputs == {<<"tab", n>> : n \in 0..MaxIds}
BufferIdInputs == {<<"buffer", n>> : n \in 0..MaxIds}

FocusInputs == {"editor", "explorer"}
\* The identifiers the terminal counter can produce within the bound.
TerminalIdInputs == {<<"terminal", n>> : n \in 1..MaxIds}
\* The overlay actions of AppAction.
OverlayActions ==
    {[type |-> "OPEN_COMMAND_LINE"], [type |-> "CLOSE_COMMAND_LINE"],
     [type |-> "SET_COMMAND_LINE_VALUE", value |-> <<"w">>],
     [type |-> "EXECUTE_COMMAND", command |-> "w"],
     [type |-> "OPEN_PALETTE"], [type |-> "CLOSE_PALETTE"],
     [type |-> "SET_PALETTE_QUERY", query |-> "x"],
     [type |-> "OPEN_FILE_PICKER"], [type |-> "CLOSE_FILE_PICKER"],
     [type |-> "OPEN_THEME_PICKER"], [type |-> "CLOSE_THEME_PICKER"]}
\* Actions whose case only returns the state, actions of AppAction without
\* a case, and an action that is not of AppAction.
UnimplementedActions ==
    {[type |-> "SPLIT_PANE", direction |-> "horizontal"],
     [type |-> "CLOSE_PANE", paneId |-> "main-pane"],
     [type |-> "RESIZE_PANE", paneId |-> "main-pane", size |-> 50],
     [type |-> "REFRESH_TREE"],
     [type |-> "LOAD_DIRECTORY_CHILDREN", path |-> PathA, children |-> <<>>],
     [type |-> "NO_SUCH_ACTION"]}

----------------------------------------------------------------------------
\* Store

\* The content last loaded or saved, per buffer of the snapshot s2 reached
\* by `action`: set when the buffer is created and by SAVE_FILE.
savedAfter(s2, action, ok) ==
    [k \in MapKeys(s2.buffers) |->
        IF ok /\ action.type = "SAVE_FILE" /\ action.bufferId = k
        THEN MapGet(s2.buffers, k).content
        ELSE IF k \in DOMAIN saved THEN saved[k]
        ELSE MapGet(s2.buffers, k).content]

\* The first statement of Store.dispatch: the reducer is applied and the
\* snapshot replaced; when the reducer throws, the assignment does not
\* happen.  The caller records the action in `last`.
reduce(action) ==
    LET r == appReducer(state, action, bufferId, tabId, terminalId)
        s2 == IF r.raised THEN state ELSE r.state
    IN /\ exitCode = Null
       /\ r.bufferId <= MaxIds
       /\ r.tabId <= MaxIds
       /\ r.terminalId <= MaxIds
       /\ state' = s2
       /\ bufferId' = r.bufferId
       /\ tabId' = r.tabId
       /\ terminalId' = r.terminalId
       /\ raised' = r.raised
       /\ prev' = state
       /\ saved' = savedAfter(s2, action, ~r.raised)

\* Store.dispatch in a run without subscribers: the loop over the listeners
\* has nothing to call.
dispatch(action) ==
    /\ reduce(action)
    /\ UNCHANGED <<notifyVars, commandVars, adapterVars>>

\* A notification loop: `pos` is the place in the entry list of the listener
\* visited last; `begun` (the listeners subscribed when the loop started) and
\* `called` (the listeners called, each with the version it was given) are
\* kept for the properties.
newPass(v, begun) ==
    [pos |-> 0, version |-> v, begun |-> begun, called |-> <<>>]

\* The store, the adapters and the history before the first step, with s as
\* the store's snapshot.
InitAt(s) ==
    /\ state = s
    /\ bufferId = 0
    /\ tabId = 0
    /\ terminalId = 0
    /\ raised = FALSE
    /\ last = [type |-> "INIT"]
    /\ prev = s
    /\ saved = <<>>
    /\ listeners = <<>>
    /\ passes = <<>>
    /\ version = 0
    \* Subscribers: "log" only records what it is given; "normalize"
    \* dispatches SET_FOCUS "editor" when it is given a snapshot focused on
    \* the explorer; "toggle" unsubscribes "log" when "log" is subscribed
    \* and subscribes it otherwise.
    /\ observed = [l \in {"log", "normalize", "toggle"} |->
                      [since |-> 0, seen |-> <<>>]]
    /\ finished = newPass(0, {})
    /\ input = <<>>
    /\ parsed = Null
    /\ tasks = <<>>
    /\ files = [path \in Paths |-> IF path = PathA THEN Some("x") ELSE Null]
    /\ stdout = <<>>
    /\ delivered = <<>>
    /\ dataCallbacks = <<>>
    /\ exitCallbacks = <<>>
    /\ exited = Null
    /\ exitHandled = FALSE
    /\ cache = Null
    /\ settingsFile = Null
    /\ setting = Null
    /\ returned = [call |-> "none"]
    /\ objects = <<>>
    /\ thisCache = 0
    /\ calls = <<>>
    /\ exitCode = Null

\* `new Store()`: the snapshot is createInitialState().
Init == InitAt(createInitialState)

OpenFile ==
    \E path \in Paths :
        /\ last' = [type |-> "OPEN_FILE", path |-> path]
        /\ dispatch(last')

NewFile ==
    /\ last' = [type |-> "NEW_FILE"]
    /\ dispatch(last')

CloseTab ==
    \E id \in TabIdInputs :
        /\ last' = [type |-> "CLOSE_TAB", tabId |-> id]
        /\ dispatch(last')

SwitchTab ==
    \E id \in TabIdInputs :
        /\ last' = [type |-> "SWITCH_TAB", tabId |-> id]
        /\ dispatch(last')

NextTab ==
    /\ last' = [type |-> "NEXT_TAB"]
    /\ dispatch(last')

PrevTab ==
    /\ last' = [type |-> "PREV_TAB"]
    /\ dispatch(last')

SetFocus ==
    \E target \in FocusInputs :
        /\ last' = [type |-> "SET_FOCUS", target |-> target]
        /\ dispatch(last')

SaveFile ==
    \E id \in BufferIdInputs :
        /\ last' = [type |-> "SAVE_FILE", bufferId |-> id]
        /\ dispatch(last')

SetBufferContent ==
    \E id \in BufferIdInputs, content \in {"", "x"} :
        /\ last' = [type |-> "SET_BUFFER_CONTENT", bufferId |-> id,
                    content |-> content]
        /\ dispatch(last')

SetCursor ==
    \E id \in BufferIdInputs,
       position \in {[line |-> 0, column |-> 1, offset |-> 1]} :
        /\ last' = [type |-> "SET_CURSOR", bufferId |-> id,
                    position |-> position]
        /\ dispatch(last')

SetSelection ==
    \E id \in BufferIdInputs,
       selection \in
          {Null,
           Some([anchor |-> [line |-> 0, column |-> 0, offset |-> 0],
                 focus  |-> [line |-> 0, column |-> 1, offset |-> 1]])} :
        /\ last' = [type |-> "SET_SELECTION", bufferId |-> id,
                    selection |-> selection]
        /\ dispatch(last')

\* The file a buffer-editing run works on.
OpenFileToEdit ==
    \E path \in {PathA} :
        /\ last' = [type |-> "OPEN_FILE", path |-> path]
        /\ dispatch(last')

\* Tab and buffer lifecycle: any order of the tab actions, any ids.
Next ==
    \/ OpenFile
    \/ NewFile
    \/ CloseTab
    \/ SwitchTab
    \/ NextTab
    \/ PrevTab
    \/ SetFocus

Spec == Init /\ [][Next]_vars

\* Buffer editing: the buffer-field actions, any ids, on the files of
\* PathA, opened and closed in any order.
NextEdit ==
    \/ OpenFileToEdit
    \/ CloseTab
    \/ SaveFile
    \/ SetBufferContent
    \/ SetCursor
    \/ SetSelection

SpecEdit == Init /\ [][NextEdit]_vars

----------------------------------------------------------------------------
\* Views of a snapshot used by the properties

\* The active pane (the layout always holds a leaf).
paneOf(s) == getActivePane(s.layout)[1]
tabsOf(s) == paneOf(s).tabs
tabIdsOf(s) == {tabsOf(s)[j].id : j \in DOMAIN tabsOf(s)}
\* The ids of a tab list, in order.
idSeq(tabs) == [j \in DOMAIN tabs |-> tabs[j].id]
\* 1-based positions of the tabs flagged active.
activeAt(s) == {j \in DOMAIN tabsOf(s) : tabsOf(s)[j].isActive}
\* 1-based position of the tab with the given id, 0 when absent.
indexOfTab(s, id) == FirstOf({j \in DOMAIN tabsOf(s) : tabsOf(s)[j].id = id})
\* Tabs of s that reference buffer k.
tabsReferencing(s, k) == {j \in DOMAIN tabsOf(s) : tabsOf(s)[j].bufferId = k}

----------------------------------------------------------------------------
\* C1: after any sequence of dispatched actions, in every pane activeTabId
\* is null or the id of a tab in the pane's tab list; exactly one tab has
\* isActive set iff activeTabId is non-null, and that tab is the one
\* activeTabId names.
C1_ActiveTabInvariant ==
    \A p \in panesOf(state.layout.root) :
        LET active == {j \in DOMAIN p.tabs : p.tabs[j].isActive}
        IN /\ \/ p.activeTabId = Null
              \/ \E j \in DOMAIN p.tabs : p.tabs[j].id = p.activeTabId
           /\ (p.activeTabId # Null) <=> (Cardinality(active) = 1)
           /\ \A j \in active : p.tabs[j].id = p.activeTabId

----------------------------------------------------------------------------
\* C2: every buffer of the table is referenced by at least one tab and every
\* tab's bufferId names a buffer of the table; CLOSE_TAB of the last tab
\* referencing a buffer removes the buffer in the same transition, and
\* CLOSE_TAB of a tab whose buffer another tab still references keeps it.
C2_BufferRefCount ==
    /\ \A k \in MapKeys(state.buffers) : tabsReferencing(state, k) # {}
    /\ \A j \in DOMAIN tabsOf(state) :
          MapHas(state.buffers, tabsOf(state)[j].bufferId)
    /\ (last.type = "CLOSE_TAB" /\ last.tabId \in tabIdsOf(prev)) =>
          LET closed == tabsOf(prev)[indexOfTab(prev, last.tabId)]
              others == {j \in tabsReferencing(prev, closed.bufferId) :
                            tabsOf(prev)[j].id # last.tabId}
          IN /\ others = {} => ~MapHas(state.buffers, closed.bufferId)
             /\ others # {} => MapHas(state.buffers, closed.bufferId)
             /\ \A k \in MapKeys(prev.buffers) \ {closed.bufferId} :
                   MapHas(state.buffers, k)

\* A CLOSE_TAB has just removed the last tab of a buffer, and with it the
\* buffer, while another tab and its buffer stay.
C2_Witness ==
    /\ last.type = "CLOSE_TAB"
    /\ last.tabId \in tabIdsOf(prev)
    /\ Len(prev.buffers) = 2
    /\ Len(state.buffers) = 1
    /\ Len(tabsOf(state)) = 1
    /\ ~MapHas(state.buffers,
               tabsOf(prev)[indexOfTab(prev, last.tabId)].bufferId)

----------------------------------------------------------------------------
\* C3: no two buffers have the same non-null filePath; OPEN_FILE for a path
\* that already has a buffer leaves the buffer count and the tab count
\* unchanged, makes the existing tab of that buffer the active tab (all
\* others inactive) and sets focusTarget to "editor".
C3_OpenSamePathTwice ==
    /\ \A i, j \in DOMAIN state.buffers :
          (/\ state.buffers[i].value.filePath # Null
           /\ state.buffers[i].value.filePath = state.buffers[j].value.filePath)
          => i = j
    /\ (/\ last.type = "OPEN_FILE"
        /\ \E i \in DOMAIN prev.buffers :
              prev.buffers[i].value.filePath = Some(last.path)) =>
          LET i == FirstOf({i \in DOMAIN prev.buffers :
                              prev.buffers[i].value.filePath = Some(last.path)})
              k == prev.buffers[i].key
              existing == tabsOf(prev)[FirstOf(tabsReferencing(prev, k))]
          IN /\ Len(state.buffers) = Len(prev.buffers)
             /\ state.buffers = prev.buffers
             /\ idSeq(tabsOf(state)) = idSeq(tabsOf(prev))
             /\ paneOf(state).activeTabId = existing.id
             /\ \A j \in DOMAIN tabsOf(state) :
                   tabsOf(state)[j].isActive <=> tabsOf(state)[j].id = existing.id
             /\ state.focusTarget = "editor"

\* OPEN_FILE has just been dispatched for a path already open in a tab that
\* was not the active one, while the focus was elsewhere.
C3_Witness ==
    /\ last.type = "OPEN_FILE"
    /\ \E i \in DOMAIN prev.buffers :
          /\ prev.buffers[i].value.filePath = Some(last.path)
          /\ \E j \in tabsReferencing(prev, prev.buffers[i].key) :
                /\ ~tabsOf(prev)[j].isActive
                /\ tabsOf(state)[j].isActive
    /\ prev.focusTarget = "explorer"
    /\ state.focusTarget = "editor"
    /\ Len(tabsOf(state)) = 3

----------------------------------------------------------------------------
\* C4: for every reachable state and every action the reducer returns a
\* state and never raises; in particular NEXT_TAB and PREV_TAB return a
\* state whenever the tab list is non-empty, whatever activeTabId and the
\* isActive flags are.
C4_ReducerNeverRaises == ~raised

----------------------------------------------------------------------------
\* C5: an action naming a buffer or tab identity that is not in the state
\* (SAVE_FILE, SET_BUFFER_CONTENT, SET_CURSOR, SET_SELECTION with an unknown
\* bufferId; CLOSE_TAB, SWITCH_TAB with an unknown tabId) is a no-op: the
\* resulting state equals the input state.
C5_UnknownIdIsNoOp ==
    /\ (/\ last.type \in {"SAVE_FILE", "SET_BUFFER_CONTENT", "SET_CURSOR",
                          "SET_SELECTION"}
        /\ ~MapHas(prev.buffers, last.bufferId))
       => state = prev
    /\ (/\ last.type \in {"CLOSE_TAB", "SWITCH_TAB"}
        /\ last.tabId \notin tabIdsOf(prev))
       => state = prev

\* The part of C5 the reducer keeps: every named kind but SWITCH_TAB.
C5_UnknownIdIsNoOpButSwitch ==
    /\ (/\ last.type \in {"SAVE_FILE", "SET_BUFFER_CONTENT", "SET_CURSOR",
                          "SET_SELECTION"}
        /\ ~MapHas(prev.buffers, last.bufferId))
       => state = prev
    /\ (last.type = "CLOSE_TAB" /\ last.tabId \notin tabIdsOf(prev))
       => state = prev

----------------------------------------------------------------------------
\* C6: a buffer's dirty flag is false only when its content equals the value
\* last saved or loaded for that buffer; in particular SET_BUFFER_CONTENT
\* dispatched twice with the same new content (different from the saved
\* content) leaves the buffer dirty.
C6_CleanMeansSaved ==
    \A i \in DOMAIN state.buffers :
        ~state.buffers[i].value.isDirty =>
            state.buffers[i].value.content = saved[state.buffers[i].key]

----------------------------------------------------------------------------
\* C7: SET_BUFFER_CONTENT on an existing buffer sets content to the new value
\* and the dirty flag to (new content # the buffer's content immediately
\* before the transition), recomputed on every content transition.
C7_SetContentRecomputesDirty ==
    (last.type = "SET_BUFFER_CONTENT" /\ MapHas(prev.buffers, last.bufferId)) =>
        /\ ~raised
        /\ MapHas(state.buffers, last.bufferId)
        /\ LET before == MapGet(prev.buffers, last.bufferId)
               after == MapGet(state.buffers, last.bufferId)
           IN /\ after.content = last.content
              /\ after.isDirty = (last.content # before.content)
              /\ after = [before EXCEPT !.content = after.content,
                                        !.isDirty = after.isDirty]

\* A SET_BUFFER_CONTENT has just taken the flag of a dirty buffer back to
\* false although the content it holds was never saved.
C7_Witness ==
    /\ last.type = "SET_BUFFER_CONTENT"
    /\ MapHas(prev.buffers, last.bufferId)
    /\ MapGet(prev.buffers, last.bufferId).isDirty
    /\ ~MapGet(state.buffers, last.bufferId).isDirty
    /\ MapGet(state.buffers, last.bufferId).content = "x"
    /\ saved[last.bufferId] = ""

----------------------------------------------------------------------------
\* C8: CLOSE_TAB of a tab T at index i of the active pane: if T was the
\* active tab and tabs remain, the new active tab is the one at index
\* min(i, newCount - 1) of the list after removal; if T was not active, the
\* previously active tab stays active; if the pane becomes empty,
\* activeTabId becomes null.  The order of the remaining tabs is unchanged.
C8_CloseTabActivation ==
    (last.type = "CLOSE_TAB" /\ last.tabId \in tabIdsOf(prev)) =>
        LET i == indexOfTab(prev, last.tabId) - 1
            T == tabsOf(prev)[i + 1]
            newCount == Len(tabsOf(state))
        IN /\ ~raised
           /\ idSeq(tabsOf(state)) =
                 SelectSeq(idSeq(tabsOf(prev)), LAMBDA x : x # last.tabId)
           /\ newCount = Len(tabsOf(prev)) - 1
           /\ (T.isActive /\ newCount > 0) =>
                 /\ paneOf(state).activeTabId =
                       tabsOf(state)[Min(i, newCount - 1) + 1].id
                 /\ activeAt(state) = {Min(i, newCount - 1) + 1}
           /\ (~T.isActive /\ newCount > 0) =>
                 /\ paneOf(state).activeTabId = paneOf(prev).activeTabId
                 /\ \A j \in activeAt(prev) :
                       \E k \in activeAt(state) :
                           tabsOf(state)[k].id = tabsOf(prev)[j].id
           /\ newCount = 0 => paneOf(state).activeTabId = Null

\* A CLOSE_TAB has just closed the active tab in the middle of three: the
\* tab that followed it is the active one, at the index the closed tab had.
C8_Witness ==
    /\ last.type = "CLOSE_TAB"
    /\ Len(tabsOf(prev)) = 3
    /\ tabsOf(prev)[2].id = last.tabId
    /\ tabsOf(prev)[2].isActive
    /\ Len(tabsOf(state)) = 2
    /\ tabsOf(state)[2].isActive
    /\ paneOf(state).activeTabId = tabsOf(prev)[3].id

----------------------------------------------------------------------------
\* What the reducer returns for NEXT_TAB / PREV_TAB applied to snapshot s.
afterNext(s) == NEXT_TAB(s, [type |-> "NEXT_TAB"], bufferId, tabId, terminalId)
afterPrev(s) == PREV_TAB(s, [type |-> "PREV_TAB"], bufferId, tabId, terminalId)

\* C9: from any state whose active pane has an active tab, NEXT_TAB followed
\* by PREV_TAB, and PREV_TAB followed by NEXT_TAB, return activeTabId to
\* its original value, for every tab count >= 1.
C9_NextPrevRoundTrip ==
    activeAt(state) # {} =>
        /\ ~afterNext(state).raised
        /\ ~afterPrev(afterNext(state).state).raised
        /\ paneOf(afterPrev(afterNext(state).state).state).activeTabId =
              paneOf(state).activeTabId
        /\ ~afterPrev(state).raised
        /\ ~afterNext(afterPrev(state).state).raised
        /\ paneOf(afterNext(afterPrev(state).state).state).activeTabId =
              paneOf(state).activeTabId

\* A PREV_TAB has just wrapped from the first of three tabs to the last, and
\* NEXT_TAB from here leads back to the tab that was active before.
C9_Witness ==
    /\ last.type = "PREV_TAB"
    /\ ~raised
    /\ Len(tabsOf(prev)) = 3
    /\ activeAt(prev) = {1}
    /\ activeAt(state) = {3}
    /\ paneOf(afterNext(state).state).activeTabId = paneOf(prev).activeTabId

----------------------------------------------------------------------------
\* C10: NEXT_TAB activates the tab at index (current + 1) mod count and
\* PREV_TAB the tab at index (current - 1 + count) mod count, current being
\* the index of the active tab; with tabs A,B,C and C active, three PREV_TABs
\* activate B, A, C in turn; with zero tabs both are no-ops; neither changes
\* the tab order or the buffer table.
C10_NextPrevIndex ==
    /\ (last.type \in {"NEXT_TAB", "PREV_TAB"}) =>
          /\ idSeq(tabsOf(state)) = idSeq(tabsOf(prev))
          /\ state.buffers = prev.buffers
          /\ Len(tabsOf(prev)) = 0 => (state = prev /\ ~raised)
          /\ \A cur \in activeAt(prev) :
                LET count == Len(tabsOf(prev))
                    target == IF last.type = "NEXT_TAB"
                              THEN (cur - 1 + 1) % count
                              ELSE (cur - 1 - 1 + count) % count
                IN /\ ~raised
                   /\ activeAt(state) = {target + 1}
                   /\ paneOf(state).activeTabId = tabsOf(prev)[target + 1].id
    /\ (Len(tabsOf(state)) = 3 /\ activeAt(state) = {3}) =>
          LET s1 == afterPrev(state).state
              s2 == afterPrev(s1).state
              s3 == afterPrev(s2).state
          IN /\ activeAt(s1) = {2}
             /\ activeAt(s2) = {1}
             /\ activeAt(s3) = {3}

\* A NEXT_TAB has just wrapped from the last of three tabs to the first.
C10_Witness ==
    /\ last.type = "NEXT_TAB"
    /\ ~raised
    /\ Len(tabsOf(prev)) = 3
    /\ activeAt(prev) = {3}
    /\ activeAt(state) = {1}
    /\ paneOf(state).activeTabId = tabsOf(state)[1].id

----------------------------------------------------------------------------
----------------------------------------------------------------------------
\* Store.subscribe, the unsubscribe closure and the notification loop

\* The members of the Set.
members(set) == {set[i][1] : i \in {j \in DOMAIN set : set[j] # Null}}
\* Set.prototype.add: a new member goes to the end of the entry list.
setAdd(set, l) == IF l \in members(set) THEN set ELSE Append(set, Some(l))
\* Set.prototype.delete: the entry is emptied, the list keeps its places.
setDelete(set, l) == [i \in DOMAIN set |-> IF set[i] = Some(l) THEN Null ELSE set[i]]

\* store.subscribe(l); `observed` starts anew for l.
subscribe(l) ==
    /\ listeners' = setAdd(listeners, l)
    /\ observed' = [observed EXCEPT ![l] = [since |-> version, seen |-> <<>>]]
    /\ UNCHANGED <<storeVars, passes, version, finished, commandVars,
                   adapterVars>>

\* A subscription from outside any dispatch, in a run whose listeners are
\* "log" and "normalize".
SubscribeNotified ==
    \E l \in {"log", "normalize"} \ members(listeners) :
        /\ passes = <<>>
        /\ Len(listeners) < MaxSlots
        /\ subscribe(l)

\* A subscription from outside any dispatch, in a run whose listeners are
\* "log" and "toggle".
SubscribeToggled ==
    \E l \in {"log", "toggle"} \ members(listeners) :
        /\ passes = <<>>
        /\ Len(listeners) < MaxSlots
        /\ subscribe(l)

\* The closure subscribe returned for l is called, outside any dispatch.
Unsubscribe ==
    \E l \in members(listeners) :
        /\ passes = <<>>
        /\ listeners' = setDelete(listeners, l)
        /\ UNCHANGED <<storeVars, passes, version, observed, finished,
                       commandVars, adapterVars>>

\* store.dispatch(SET_FOCUS) from outside any dispatch, up to the start of
\* the loop over the listeners.
DispatchFocus ==
    \E target \in FocusInputs :
        /\ passes = <<>>
        /\ version < MaxDispatches
        /\ last' = [type |-> "SET_FOCUS", target |-> target]
        /\ reduce(last')
        /\ version' = version + 1
        /\ passes' = <<newPass(version + 1, members(listeners))>>
        /\ UNCHANGED <<listeners, observed, finished, commandVars,
                       adapterVars>>

\* One turn of the innermost `for (const listener of this.listeners)`: the
\* iterator moves to the next entry of the live list that is not deleted and
\* the listener is called with this.state as it is now; without such an
\* entry the loop ends.  A listener that dispatches starts a loop of its own,
\* which runs to its end before the listener returns.
Notify ==
    /\ passes # <<>>
    /\ UNCHANGED <<commandVars, adapterVars>>
    /\ LET n == Len(passes)
           top == passes[n]
           i == FirstOf({j \in DOMAIN listeners :
                           j > top.pos /\ listeners[j] # Null})
       IN IF i = 0
          THEN /\ passes' = SubSeq(passes, 1, n - 1)
               /\ finished' = top
               /\ UNCHANGED <<storeVars, listeners, version, observed>>
          ELSE LET l == listeners[i][1]
                   visited == [top EXCEPT
                                 !.pos = i,
                                 !.called = Append(@, <<l, version>>)]
                   seen == [observed EXCEPT ![l].seen = Append(@, version)]
               IN /\ finished' = finished
                  /\ IF l = "normalize" /\ state.focusTarget = "explorer"
                     THEN /\ version < MaxDispatches
                          /\ last' = [type |-> "SET_FOCUS", target |-> "editor"]
                          /\ reduce(last')
                          /\ version' = version + 1
                          /\ passes' = Append([passes EXCEPT ![n] = visited],
                                          newPass(version + 1, members(listeners)))
                          /\ observed' = seen
                          /\ listeners' = listeners
                     ELSE IF l = "toggle" /\ "log" \in members(listeners)
                     THEN /\ listeners' = setDelete(listeners, "log")
                          /\ passes' = [passes EXCEPT ![n] = visited]
                          /\ observed' = seen
                          /\ UNCHANGED <<storeVars, version>>
                     ELSE IF l = "toggle"
                     THEN /\ Len(listeners) < MaxSlots
                          /\ listeners' = setAdd(listeners, "log")
                          /\ passes' = [passes EXCEPT ![n] = visited]
                          /\ observed' = [seen EXCEPT
                                !["log"] = [since |-> version, seen |-> <<>>]]
                          /\ UNCHANGED <<storeVars, version>>
                     ELSE /\ passes' = [passes EXCEPT ![n] = visited]
                          /\ observed' = seen
                          /\ UNCHANGED <<storeVars, listeners, version>>

\* Dispatches with subscribers, one of which dispatches when notified.
NextNotify ==
    \/ SubscribeNotified
    \/ Unsubscribe
    \/ DispatchFocus
    \/ Notify

SpecNotify == Init /\ [][NextNotify]_vars

\* Dispatches with subscribers, one of which subscribes and unsubscribes
\* another when notified.
NextListeners ==
    \/ SubscribeToggled
    \/ Unsubscribe
    \/ DispatchFocus
    \/ Notify

SpecListeners == Init /\ [][NextListeners]_vars

\* C12: every dispatch applies the reducer once, replaces the snapshot and
\* synchronously calls every subscriber exactly once with exactly the
\* snapshot that dispatch produced; across any sequence of dispatches,
\* a dispatch issued by a listener during notification included, each
\* subscriber observes every snapshot, in dispatch order, with no gap,
\* duplicate or reordering.
C12_EverySnapshotInOrder ==
    /\ \A l \in finished.begun :
          /\ Cardinality({k \in DOMAIN finished.called :
                            finished.called[k][1] = l}) = 1
          /\ \A k \in DOMAIN finished.called :
                finished.called[k][1] = l =>
                    finished.called[k][2] = finished.version
    /\ passes = <<>> =>
          \A l \in members(listeners) :
              observed[l].seen =
                  [k \in 1..(version - observed[l].since) |->
                      observed[l].since + k]

\* C13: the listeners notified for a dispatch are exactly those subscribed
\* when the notification pass began: a listener that another listener
\* unsubscribes during the pass is still called for that dispatch, and a
\* listener subscribed during the pass is not called until the next dispatch.
C13_NotifiesSnapshotOfListeners ==
    /\ \A n \in DOMAIN passes : \A k \in DOMAIN passes[n].called :
          passes[n].called[k][1] \in passes[n].begun
    /\ {finished.called[k][1] : k \in DOMAIN finished.called} = finished.begun

----------------------------------------------------------------------------
\* Overlays, terminals and the actions without an implementation

DispatchOverlay ==
    \E action \in OverlayActions :
        /\ last' = action
        /\ dispatch(last')

DispatchUnimplemented ==
    \E action \in UnimplementedActions :
        /\ last' = action
        /\ dispatch(last')

OpenTerminal ==
    /\ last' = [type |-> "OPEN_TERMINAL"]
    /\ dispatch(last')

\* Overlays and terminals over a few untitled buffers, with the focus moved
\* between editor and explorer.
NextShell ==
    \/ DispatchOverlay
    \/ DispatchUnimplemented
    \/ OpenTerminal
    \/ NewFile
    \/ SetFocus

SpecShell == Init /\ [][NextShell]_vars

CloseTerminal ==
    \E id \in TerminalIdInputs :
        /\ last' = [type |-> "CLOSE_TERMINAL", terminalId |-> id]
        /\ dispatch(last')

FocusTerminal ==
    \E id \in TerminalIdInputs :
        /\ last' = [type |-> "FOCUS_TERMINAL", terminalId |-> id]
        /\ dispatch(last')

\* Terminals opened, focused and closed by identifier, whether or not a
\* terminal of that identifier is open, with the focus moved in between.
NextTerminal ==
    \/ OpenTerminal
    \/ CloseTerminal
    \/ FocusTerminal
    \/ SetFocus

SpecTerminal == Init /\ [][NextTerminal]_vars

----------------------------------------------------------------------------
\* C14: the transition function is deterministic: applying the same action
\* to the same state twice yields equal resulting states, including the
\* identities assigned to new buffers, tabs and terminals by OPEN_FILE,
\* NEW_FILE and OPEN_TERMINAL.
C14_SameStateSameActionSameResult ==
    \* whenever one of these actions is applied to the initial snapshot, the
    \* result is the one its first application to that snapshot gave
    (/\ last.type \in {"OPEN_FILE", "NEW_FILE", "OPEN_TERMINAL"}
     /\ prev = createInitialState) =>
        state = appReducer(createInitialState, last, 0, 0, 0).state

----------------------------------------------------------------------------
\* C15: an action kind the reducer does not implement (SPLIT_PANE,
\* CLOSE_PANE, RESIZE_PANE, REFRESH_TREE, or any kind outside the switch)
\* returns the input state unchanged and raises no error.
C15_UnimplementedIsNoOp ==
    last \in UnimplementedActions => (state = prev /\ ~raised)

\* SPLIT_PANE has just been dispatched on a state with a buffer, a terminal
\* and the palette open.
C15_Witness ==
    /\ last.type = "SPLIT_PANE"
    /\ Len(state.buffers) = 1
    /\ Len(state.terminals) = 1
    /\ state.palette.isOpen
    /\ state = prev

----------------------------------------------------------------------------
\* C16: for each overlay (command line, palette, file picker, theme picker)
\* its open action marks it open and sets focusTarget to that overlay, and
\* its close action marks it closed and sets focusTarget to "editor"
\* whatever the focus was before the overlay was opened.
C16_OverlayOpenClose ==
    \A o \in {"commandLine", "palette", "filePicker", "themePicker"} :
        LET kind == CASE o = "commandLine" -> "COMMAND_LINE"
                      [] o = "palette"     -> "PALETTE"
                      [] o = "filePicker"  -> "FILE_PICKER"
                      [] o = "themePicker" -> "THEME_PICKER"
            isOpen == o \in DOMAIN state /\ state[o].isOpen
        IN /\ last.type = "OPEN_" \o kind =>
                 (isOpen /\ state.focusTarget = o)
           /\ last.type = "CLOSE_" \o kind =>
                 (~isOpen /\ state.focusTarget = "editor")

\* C16, for the command line and the palette alone.
C16_CommandLineAndPalette ==
    /\ last.type = "OPEN_COMMAND_LINE" =>
          (state.commandLine.isOpen /\ state.focusTarget = "commandLine")
    /\ last.type = "OPEN_PALETTE" =>
          (state.palette.isOpen /\ state.focusTarget = "palette")
    /\ last.type = "CLOSE_COMMAND_LINE" =>
          (~state.commandLine.isOpen /\ state.focusTarget = "editor")
    /\ last.type = "CLOSE_PALETTE" =>
          (~state.palette.isOpen /\ state.focusTarget = "editor")

----------------------------------------------------------------------------
\* C20: OPEN_TERMINAL adds exactly one new terminal record, marks every
\* previously existing terminal inactive and the new one active, and sets
\* focusTarget to "terminal"; buffers and the pane layout are unchanged.
C20_OpenTerminal ==
    last.type = "OPEN_TERMINAL" =>
        LET n == Len(prev.terminals)
        IN /\ Len(state.terminals) = n + 1
           /\ ~MapHas(prev.terminals, state.terminals[n + 1].key)
           /\ state.terminals[n + 1].value.id = state.terminals[n + 1].key
           /\ state.terminals[n + 1].value.isActive
           /\ \A i \in 1..n :
                 /\ state.terminals[i].key = prev.terminals[i].key
                 /\ ~state.terminals[i].value.isActive
                 /\ state.terminals[i].value =
                       [prev.terminals[i].value EXCEPT !.isActive = FALSE]
           /\ state.focusTarget = "terminal"
           /\ state.buffers = prev.buffers
           /\ state.layout = prev.layout

\* A second terminal has just been opened while a buffer is open and the
\* first terminal was active.
C20_Witness ==
    /\ last.type = "OPEN_TERMINAL"
    /\ Len(prev.terminals) = 1
    /\ prev.terminals[1].value.isActive
    /\ Len(state.buffers) = 1
    /\ Len(state.terminals) = 2
    /\ ~state.terminals[1].value.isActive
    /\ state.terminals[2].value.isActive

----------------------------------------------------------------------------
\* CommandRegistry.executeCommandLine

\* White space as String.prototype.trim and the pattern \s take it.
isWhitespace(c) == c \in {" ", "\t"}

\* Mutant of trim: only the left end is trimmed.
trim_LeftOnly(s) ==
    LET keep == {i \in DOMAIN s : ~isWhitespace(s[i])}
    IN IF keep = {} THEN <<>> ELSE SubSeq(s, FirstOf(keep), Len(s))

\* String.prototype.trim
trim(s) ==
    LET keep == {i \in DOMAIN s : ~isWhitespace(s[i])}
    IN IF keep = {} THEN <<>>
       ELSE SubSeq(s, FirstOf(keep),
                   CHOOSE i \in keep : \A j \in keep : j <= i)

\* line.split(/\s+/): the pieces between the runs of white space; a run at
\* the start leaves an empty first piece.
RECURSIVE splitWhitespace(_)
splitWhitespace(s) ==
    LET ws == {i \in DOMAIN s : isWhitespace(s[i])}
    IN IF ws = {} THEN <<s>>
       ELSE LET i == FirstOf(ws)
                after == {j \in DOMAIN s : j > i /\ ~isWhitespace(s[j])}
            IN <<SubSeq(s, 1, i - 1)>> \o
               splitWhitespace(IF after = {} THEN <<>>
                               ELSE SubSeq(s, FirstOf(after), Len(s)))

\* aliasMap, as <<alias, command id>> pairs.
aliasMap ==
    { << <<"s","a","v","e">>, "file.save" >>,
      << <<"w">>, "file.save" >>,
      << <<"w","r","i","t","e">>, "file.save" >>,
      << <<"o","p","e","n">>, "file.open" >>,
      << <<"e">>, "file.open" >>,
      << <<"e","d","i","t">>, "file.open" >>,
      << <<"n","e","w">>, "file.new" >>,
      << <<"c","l","o","s","e">>, "tab.close" >>,
      << <<"q">>, "app.quit" >>,
      << <<"q","u","i","t">>, "app.quit" >>,
      << <<"q","a">>, "app.quitAll" >>,
      << <<"w","q">>, "file.saveAndQuit" >>,
      << <<"t","a","b","n","e","x","t">>, "tab.next" >>,
      << <<"t","a","b","p","r","e","v">>, "tab.prev" >>,
      << <<"t","a","b","n">>, "tab.next" >>,
      << <<"t","a","b","p">>, "tab.prev" >>,
      << <<"t","h","e","m","e">>, "theme.set" >>,
      << <<"c","o","l","o","r","s","c","h","e","m","e">>, "theme.set" >>,
      << <<"t","e","r","m","i","n","a","l">>, "terminal.open" >>,
      << <<"t","e","r","m">>, "terminal.open" >>,
      << <<"o","p","e","n","c","o","d","e">>, "opencode.open" >>,
      << <<"p","r","o","j","e","c","t">>, "project.open" >>,
      << <<"c","d">>, "project.open" >> }

\* What executeCommandLine does with its input: nothing, this.execute of a
\* command id with the arguments, or the report of an unknown command.
executeCommandLine(text) ==
    LET trimmed == trim(text)
        line == IF trimmed # <<>> /\ trimmed[1] = ":"
                THEN SubSeq(trimmed, 2, Len(trimmed)) ELSE trimmed
        parts == splitWhitespace(line)
        commandName == toLowerCase(parts[1])
        args == SubSeq(parts, 2, Len(parts))
    IN IF trimmed = <<>> \/ commandName = <<>> THEN [do |-> "nothing"]
       ELSE IF \E e \in aliasMap : e[1] = commandName
       THEN [do |-> "execute",
             id |-> (CHOOSE e \in aliasMap : e[1] = commandName)[2],
             args |-> args]
       ELSE [do |-> "unknown", name |-> commandName]

\* Command-line inputs: every text of up to MaxInputLen characters over a
\* small alphabet, and the texts " :w ", "open /tmp/x", "Write", "SAVE" and
\* "bogus".
CommandLineInputs ==
    UNION {[1..n -> {" ", "\t", ":", "w", "Q", "a"}] : n \in 0..MaxInputLen}
    \cup {<<" ", ":", "w", " ">>,
          <<"o","p","e","n"," ","/","t","m","p","/","x">>,
          <<"W","r","i","t","e">>, <<"S","A","V","E">>,
          <<"b","o","g","u","s">>}

\* One call of executeCommandLine, on any of the inputs.
ExecuteCommandLine ==
    \E text \in CommandLineInputs :
        /\ parsed = Null
        /\ input' = text
        /\ parsed' = Some(executeCommandLine(text))
        /\ UNCHANGED <<storeVars, notifyVars, tasks, files, adapterVars>>

SpecParse == Init /\ [][ExecuteCommandLine]_vars

\* C17: command-line parsing: the input is trimmed, one optional leading ":"
\* is stripped, the rest is split on runs of white space into a command word
\* and arguments, and the word is looked up case-insensitively in the alias
\* table; " :w " executes file.save with an empty argument list,
\* "open /tmp/x" executes file.open with arguments ["/tmp/x"], and "w",
\* "write", "save" in any letter case all resolve to file.save.
C17_CommandLineParsing ==
    parsed # Null =>
        LET did == parsed[1]
            black == {i \in DOMAIN input : ~isWhitespace(input[i])}
            \* the input without the white space at its two ends
            core == IF black = {} THEN <<>>
                    ELSE [k \in 1..(Cardinality(
                              {i \in DOMAIN input :
                                  \E a, b \in black : a <= i /\ i <= b})) |->
                            input[FirstOf(black) + k - 1]]
            rest == IF core # <<>> /\ core[1] = ":" THEN Tail(core) ELSE core
            \* the places where a run of characters other than white space
            \* starts, and the run that starts at i
            starts == {i \in DOMAIN rest :
                          /\ ~isWhitespace(rest[i])
                          /\ i = 1 \/ isWhitespace(rest[i - 1])}
            run(i) == LET stop == {j \in DOMAIN rest :
                                      j > i /\ isWhitespace(rest[j])}
                      IN SubSeq(rest, i, IF stop = {} THEN Len(rest)
                                         ELSE FirstOf(stop) - 1)
            runs == [k \in 1..Cardinality(starts) |->
                        run(CHOOSE i \in starts :
                                Cardinality({j \in starts : j < i}) = k - 1)]
            sameWord(a, b) == toLowerCase(a) = toLowerCase(b)
        IN /\ IF rest = <<>> \/ isWhitespace(rest[1])
              THEN did = [do |-> "nothing"]
              ELSE IF \E e \in aliasMap : sameWord(e[1], runs[1])
              THEN /\ did.do = "execute"
                   /\ \E e \in aliasMap :
                         sameWord(e[1], runs[1]) /\ did.id = e[2]
                   /\ did.args = Tail(runs)
              ELSE did.do = "unknown"
           /\ input = <<" ", ":", "w", " ">> =>
                 did = [do |-> "execute", id |-> "file.save", args |-> <<>>]
           /\ input = <<"o","p","e","n"," ","/","t","m","p","/","x">> =>
                 did = [do |-> "execute", id |-> "file.open",
                        args |-> << <<"/","t","m","p","/","x">> >>]
           /\ input \in {<<"w">>, <<"W">>, <<":", "W">>,
                         <<"W","r","i","t","e">>, <<"S","A","V","E">>} =>
                 (did.do = "execute" /\ did.id = "file.save")

\* " :w " has just been parsed.
C17_Witness ==
    /\ input = <<" ", ":", "w", " ">>
    /\ parsed = Some([do |-> "execute", id |-> "file.save", args |-> <<>>])

----------------------------------------------------------------------------
\* Commands: CommandRegistry.execute, file.open, file.save and the command
\* line's onSubmit

\* The ids registered with the command registry.
registered ==
    {"file.save", "file.open", "file.new", "file.saveAndQuit", "tab.close",
     "tab.next", "tab.prev", "theme.set", "theme.toggle", "terminal.open",
     "terminal.close", "app.quit", "app.quitAll", "focus.editor",
     "focus.explorer", "focus.terminal", "commandLine.open",
     "commandLine.close", "palette.open", "palette.close", "filePicker.open",
     "filePicker.close", "project.open", "themePicker.open",
     "themePicker.close", "clipboard.copy", "clipboard.paste",
     "clipboard.cut", "edit.selectAll", "opencode.open"}

\* What a stretch of a command between two awaits does: the actions it
\* dispatches, the external operation it then awaits (Null when the command
\* is over) and what it writes with console.error or rejects with.
effect(actions, task, message) ==
    [actions |-> actions, task |-> task, logged |-> message]

\* Mutant of notFound: an unknown command opens the palette.
notFound_OpensPalette(id) ==
    effect(<<[type |-> "OPEN_PALETTE"]>>, Null, Some("Command not found"))

\* CommandRegistry.execute for an id without a command.
notFound(id) == effect(<<>>, Null, Some("Command not found"))

\* CommandRegistry.execute(id, {args}) up to the command's first await, on
\* snapshot s, for file.save, file.open and the commands that only dispatch.
RECURSIVE execute(_, _, _)
execute(id, args, s) ==
    CASE id \notin registered -> notFound(id)
      [] id = "file.saveAndQuit" ->
            \* await execute("file.save"), then await execute("app.quit")
            LET save == execute("file.save", <<>>, s)
            IN effect(save.actions,
                      Some(IF save.task = Null
                           THEN [command |-> id, awaiting |-> "file.save",
                                 wrote |-> FALSE]
                           ELSE [save.task[1] EXCEPT !.command = id]),
                      save.logged)
      [] id = "file.new" -> effect(<<[type |-> "NEW_FILE"]>>, Null, Null)
      [] id = "terminal.open" ->
            effect(<<[type |-> "OPEN_TERMINAL"]>>, Null, Null)
      [] id = "terminal.close" ->
            LET active == {i \in DOMAIN s.terminals :
                              s.terminals[i].value.isActive}
            IN IF active = {} THEN effect(<<>>, Null, Null)
               ELSE effect(<<[type |-> "CLOSE_TERMINAL",
                              terminalId |->
                                  s.terminals[FirstOf(active)].value.id]>>,
                           Null, Null)
      [] id \in {"focus.editor", "focus.explorer", "focus.terminal"} ->
            effect(<<[type |-> "SET_FOCUS",
                      target |-> CASE id = "focus.editor" -> "editor"
                                   [] id = "focus.explorer" -> "explorer"
                                   [] id = "focus.terminal" -> "terminal"]>>,
                   Null, Null)
      [] id \in {"commandLine.open", "commandLine.close", "palette.open",
                 "palette.close", "filePicker.open", "filePicker.close",
                 "themePicker.open", "themePicker.close"} ->
            effect(<<[type |->
                        CASE id = "commandLine.open" -> "OPEN_COMMAND_LINE"
                          [] id = "commandLine.close" -> "CLOSE_COMMAND_LINE"
                          [] id = "palette.open" -> "OPEN_PALETTE"
                          [] id = "palette.close" -> "CLOSE_PALETTE"
                          [] id = "filePicker.open" -> "OPEN_FILE_PICKER"
                          [] id = "filePicker.close" -> "CLOSE_FILE_PICKER"
                          [] id = "themePicker.open" -> "OPEN_THEME_PICKER"
                          [] id = "themePicker.close" ->
                                "CLOSE_THEME_PICKER"]>>,
                   Null, Null)
      [] id = "project.open" ->
            effect(<<[type |-> "OPEN_FILE_PICKER", mode |-> "project"]>>,
                   Null, Null)
      [] id = "file.save" ->
            LET pane == getActivePane(s.layout)
                hit == {j \in DOMAIN pane[1].tabs :
                           pane[1].tabs[j].id = pane[1].activeTabId}
                activeTab == pane[1].tabs[FirstOf(hit)]
                buffer == MapGet(s.buffers, activeTab.bufferId)
            IN IF pane = Null \/ pane[1].activeTabId = Null \/ hit = {}
               THEN effect(<<>>, Null, Null)
               ELSE IF \/ ~MapHas(s.buffers, activeTab.bufferId)
                       \/ buffer.filePath \in {Null, Some(<<>>)}
               THEN effect(<<>>, Null,
                           Some("Cannot save untitled buffer without path"))
               ELSE effect(<<>>,
                           Some([command |-> "file.save",
                                 awaiting |-> "writeFile",
                                 bufferId |-> buffer.id,
                                 path |-> buffer.filePath[1],
                                 content |-> buffer.content]),
                           Null)
      [] id = "file.open" ->
            IF args = <<>> \/ args[1] = <<>>
            THEN effect(<<[type |-> "OPEN_FILE_PICKER"]>>, Null, Null)
            ELSE effect(<<>>,
                        Some([command |-> "file.open", awaiting |-> "exists",
                              path |-> args[1]]),
                        Null)

\* Mutant of afterWrite: SAVE_FILE is dispatched whether or not the write
\* succeeded.
afterWrite_Always(task, ok) ==
    <<[type |-> "SAVE_FILE", bufferId |-> task.bufferId]>>

\* What file.save dispatches once `await fileSystem.writeFile` has settled.
afterWrite(task, ok) ==
    IF ok THEN <<[type |-> "SAVE_FILE", bufferId |-> task.bufferId]>> ELSE <<>>

\* The stretch of a command after the operation it awaits has settled; ok is
\* FALSE when exists resolved to false or when readFile / writeFile rejected.
resume(task, ok) ==
    CASE task.awaiting = "exists" ->
            IF ok THEN effect(<<>>, Some([task EXCEPT !.awaiting = "readFile"]),
                              Null)
            ELSE effect(<<>>, Null, Some("File not found"))
      [] task.awaiting = "readFile" ->
            IF ok THEN effect(<<[type |-> "OPEN_FILE", path |-> task.path,
                                 content |-> files[task.path][1]]>>, Null, Null)
            ELSE effect(<<>>, Null, Some("Failed to read file"))
      [] task.awaiting = "writeFile" ->
            effect(afterWrite(task, ok),
                   IF ok /\ task.command = "file.saveAndQuit"
                   THEN Some([command |-> task.command,
                              awaiting |-> "file.save", wrote |-> TRUE])
                   ELSE Null,
                   IF ok THEN Null ELSE Some("writeFile rejected"))

\* store.dispatch of each action in turn; an exception ends the stretch.
\* `r` is what the reducer made of the first action on s, `rest` the actions
\* still to dispatch.
RECURSIVE runActions(_, _, _)
runActions(s, r, rest) ==
    IF r.raised THEN Throw(s, r.bufferId, r.tabId, r.terminalId)
    ELSE IF rest = <<>> THEN r
    ELSE runActions(r.state,
                    appReducer(r.state, Head(rest), r.bufferId, r.tabId,
                               r.terminalId),
                    Tail(rest))

\* A stretch r of a command runs: its dispatches are applied in order.
\* `event` names the stretch in `last`, with what it logged.
handle(event, r) ==
    \E run \in {runActions(state, Return(state, bufferId, tabId, terminalId),
                           r.actions)} :
       /\ last' = event
       /\ exitCode = Null
       /\ run.bufferId <= MaxIds
       /\ run.tabId <= MaxIds
       /\ run.terminalId <= MaxIds
       /\ state' = run.state
       /\ bufferId' = run.bufferId
       /\ tabId' = run.tabId
       /\ terminalId' = run.terminalId
       /\ raised' = run.raised
       /\ prev' = state
       /\ saved' = savedAfter(run.state,
                              IF r.actions = <<>> THEN event
                              ELSE r.actions[Len(r.actions)],
                              ~run.raised)
       /\ UNCHANGED <<notifyVars, adapterVars>>

OpenCommandLine ==
    /\ last' = [type |-> "OPEN_COMMAND_LINE"]
    /\ dispatch(last')

\* CommandLine onChange, while the command line is shown: "bogus", "e /a.ts"
\* or "e /b.MD" is typed.
TypeCommandLine ==
    \E text \in {<<"b","o","g","u","s">>, <<"e", " ">> \o PathA,
                 <<"e", " ">> \o PathB} :
        /\ state.commandLine.isOpen
        /\ last' = [type |-> "SET_COMMAND_LINE_VALUE", value |-> text]
        /\ dispatch(last')

\* CommandRegistry.executeCommandLine after the parse `did` of its input, up
\* to the command's first await.
start(did, s) ==
    CASE did.do = "execute" -> execute(did.id, did.args, s)
      [] did.do = "unknown" -> effect(<<>>, Null, Some("Unknown command"))
      [] did.do = "nothing" -> effect(<<>>, Null, Null)

\* CommandLine onSubmit in App: parseAndExecuteCommand(value), which runs up
\* to the command's first await, then dispatch CLOSE_COMMAND_LINE.
SubmitCommandLine ==
    \E r \in {start(executeCommandLine(state.commandLine.value), state)} :
       /\ state.commandLine.isOpen
       /\ r.task # Null => Len(tasks) < MaxTasks
       /\ handle([type |-> "onSubmit", input |-> state.commandLine.value,
                  logged |-> r.logged],
                 [r EXCEPT !.actions =
                              Append(@, [type |-> "CLOSE_COMMAND_LINE"])])
       /\ tasks' = tasks \o r.task
       /\ UNCHANGED <<input, parsed, files>>

\* commandRegistry.execute(id) from a key binding or the palette, without
\* arguments.
ExecuteCommand ==
    \E id \in {"file.save", "file.open", "no.such"} :
        \E r \in {execute(id, <<>>, state)} :
           /\ r.task # Null => Len(tasks) < MaxTasks
           /\ handle([type |-> "execute", id |-> id, logged |-> r.logged], r)
           /\ tasks' = tasks \o r.task
           /\ UNCHANGED <<input, parsed, files>>

\* The operation a command awaits settles and the command goes on: exists
\* resolves to whether the file is there, readFile resolves for a file that
\* is there or rejects, writeFile resolves, the file then holding the
\* content given, or rejects.
Settle ==
    \E i \in DOMAIN tasks, ok \in BOOLEAN :
        \E task \in {t \in {tasks[i]} : t.awaiting # "file.save"} :
        \E r \in {resume(task, ok)} :
        LET there == task.path \in DOMAIN files /\ files[task.path] # Null
        IN /\ task.awaiting = "exists" => ok = there
           /\ task.awaiting = "readFile" => (ok => there)
           /\ handle([type |-> "settle", task |-> task, ok |-> ok,
                      pending |-> Len(tasks), logged |-> r.logged], r)
           /\ tasks' = SubSeq(tasks, 1, i - 1) \o r.task
                          \o SubSeq(tasks, i + 1, Len(tasks))
           /\ files' = IF task.awaiting = "writeFile" /\ ok
                       THEN [files EXCEPT ![task.path] = Some(task.content)]
                       ELSE files
           /\ UNCHANGED <<input, parsed>>

\* TreeView handleClick on a file of the explorer:
\* commandRegistry.execute("file.open", { args: [path] }), not awaited by
\* the caller of the handler.  The execution is marked with whether the
\* file is open when it starts.
ClickFile ==
    \E path \in Paths :
        \E r \in {execute("file.open", <<path>>, state)} :
           /\ Len(tasks) < MaxOpens
           /\ handle([type |-> "execute", id |-> "file.open",
                      logged |-> r.logged], r)
           /\ tasks' = Append(tasks,
                              [command |-> "file.open",
                               awaiting |-> r.task[1].awaiting,
                               path |-> r.task[1].path,
                               wasOpen |-> alreadyOpen(state, path) # {}])
           /\ UNCHANGED <<input, parsed, files>>

\* Files opened from the explorer, several at a time, and saved from a key
\* binding; no action changes the content of a buffer.
NextExplorer ==
    \/ ClickFile
    \/ ExecuteCommand
    \/ Settle

SpecExplorer == Init /\ [][NextExplorer]_vars

\* Commands from the command line and from key bindings on the files of
\* Paths, with edits of the open buffers in between.
NextCommand ==
    \/ OpenCommandLine
    \/ TypeCommandLine
    \/ SubmitCommandLine
    \/ ExecuteCommand
    \/ Settle
    \/ SetBufferContent

SpecCommand == Init /\ [][NextCommand]_vars

----------------------------------------------------------------------------
\* C18: executing an unknown command identifier, or submitting a command
\* line whose word is not in the alias table ("bogus"), raises no error and
\* performs no state transition other than closing the command line
\* (commandLine closed, focusTarget "editor"); buffers, tabs, terminals and
\* theme are unchanged.
C18_UnknownCommand ==
    /\ (last.type = "execute" /\ last.id \notin registered) =>
          (~raised /\ state = prev /\ last.logged # Null)
    /\ (/\ last.type = "onSubmit"
        /\ executeCommandLine(last.input).do = "unknown") =>
          /\ ~raised
          /\ last.logged # Null
          /\ state = [prev EXCEPT
                         !.commandLine = [isOpen |-> FALSE, value |-> <<>>],
                         !.focusTarget = "editor"]
          /\ state.buffers = prev.buffers
          /\ state.layout = prev.layout
          /\ state.terminals = prev.terminals
          /\ state.theme = prev.theme

\* "bogus" has just been submitted while a file was open.
C18_Witness ==
    /\ last.type = "onSubmit"
    /\ last.input = <<"b","o","g","u","s">>
    /\ Len(prev.buffers) = 1
    /\ prev.commandLine.isOpen
    /\ prev.focusTarget = "commandLine"
    /\ ~state.commandLine.isOpen
    /\ state.focusTarget = "editor"

----------------------------------------------------------------------------
\* C19: when a command's external operation fails (file.open on a path that
\* does not exist or whose read rejects; file.save whose write rejects), the
\* command dispatches no transition after the failure: no buffer or tab is
\* created and the dirty flag of the buffer being saved is unchanged.
C19_FailedOperationDispatchesNothing ==
    (last.type = "settle" /\ ~last.ok) =>
        /\ state = prev
        /\ Len(state.buffers) = Len(prev.buffers)
        /\ Len(tabsOf(state)) = Len(tabsOf(prev))
        /\ last.task.awaiting = "writeFile" =>
              \A i \in DOMAIN prev.buffers :
                  prev.buffers[i].key = last.task.bufferId =>
                      state.buffers[i].value.isDirty
                          = prev.buffers[i].value.isDirty
        \* the command is over: it awaits nothing more
        /\ Len(tasks) = last.pending - 1

\* The write of a file.save has just been rejected while the buffer was
\* dirty.
C19_Witness ==
    /\ last.type = "settle"
    /\ last.task.awaiting = "writeFile"
    /\ ~last.ok
    /\ \E i \in DOMAIN state.buffers :
          /\ state.buffers[i].key = last.task.bufferId
          /\ state.buffers[i].value.isDirty

----------------------------------------------------------------------------
\* C21: CLOSE_TERMINAL of a terminal that is open removes its record; if
\* it was active and other terminals remain, exactly one remaining terminal
\* becomes active; if no terminals remain after the close, focusTarget is
\* "editor".
C21_CloseTerminal ==
    (/\ last.type = "CLOSE_TERMINAL"
     /\ MapHas(prev.terminals, last.terminalId)) =>
        LET active(s) == {i \in DOMAIN s.terminals :
                            s.terminals[i].value.isActive}
        IN /\ ~raised
           /\ MapKeys(state.terminals)
                 = MapKeys(prev.terminals) \ {last.terminalId}
           /\ (/\ MapGet(prev.terminals, last.terminalId).isActive
               /\ Len(state.terminals) > 0) =>
                 Cardinality(active(state)) = 1
           /\ Len(state.terminals) = 0 => state.focusTarget = "editor"

\* C21, for the close of a terminal that is active.
C21_CloseActiveTerminal ==
    (/\ last.type = "CLOSE_TERMINAL"
     /\ MapHas(prev.terminals, last.terminalId)
     /\ MapGet(prev.terminals, last.terminalId).isActive) =>
        /\ ~raised
        /\ MapKeys(state.terminals)
              = MapKeys(prev.terminals) \ {last.terminalId}
        /\ Len(state.terminals) > 0 =>
              Cardinality({i \in DOMAIN state.terminals :
                              state.terminals[i].value.isActive}) = 1
        /\ Len(state.terminals) = 0 => state.focusTarget = "editor"

----------------------------------------------------------------------------
\* Pseudo-terminal: BunProcessAdapter.spawnPty.  The handle's process writes
\* chunks of bytes to stdout; readStdout reads them one by one, decodes each
\* and calls the data callbacks; the `then` callback of proc.exited calls
\* the exit callbacks.

\* decoder.decode(value) of a TextDecoder for UTF-8 called without the
\* stream option: every call starts anew, and a byte that does not belong
\* to a complete character becomes U+FFFD; e-acute is written "e'".
RECURSIVE decode(_)
decode(bytes) ==
    IF bytes = <<>> THEN <<>>
    ELSE IF bytes[1] = "61" THEN <<"a">> \o decode(Tail(bytes))
    ELSE IF bytes[1] = "C3" /\ Len(bytes) > 1 /\ bytes[2] = "A9"
    THEN <<"e'">> \o decode(Tail(Tail(bytes)))
    ELSE <<"U+FFFD">> \o decode(Tail(bytes))

\* Mutant of deliver: only the first callback is called.
deliver_FirstOnly(callbacks, text) ==
    [i \in DOMAIN callbacks |->
        IF i = 1 THEN [callbacks[i] EXCEPT !.got = Append(@, text)]
        ELSE callbacks[i]]

\* for (const cb of callbacks) cb(text)
deliver(callbacks, text) ==
    [i \in DOMAIN callbacks |-> [callbacks[i] EXCEPT !.got = Append(@, text)]]

\* The process writes a chunk to its standard output: the bytes of "a", of
\* e-acute (C3 A9), or one half of the latter.
PtyOutput ==
    \E chunk \in {<<"61">>, <<"C3", "A9">>, <<"C3">>, <<"A9">>} :
        /\ exited = Null
        /\ Len(delivered) + Len(stdout) < MaxChunks
        /\ stdout' = Append(stdout, chunk)
        /\ UNCHANGED <<delivered, dataCallbacks, exitCallbacks, exited,
                       exitHandled, storeVars, notifyVars, commandVars, settingsVars, setVars, exitCode>>

\* One turn of the loop of readStdout: reader.read() resolves with the next
\* chunk and every callback of dataCallbacks is called with its text.
ReadStdout ==
    /\ stdout # <<>>
    /\ stdout' = Tail(stdout)
    /\ delivered' = Append(delivered, Head(stdout))
    /\ dataCallbacks' = deliver(dataCallbacks, decode(Head(stdout)))
    /\ UNCHANGED <<exitCallbacks, exited, exitHandled, storeVars,
                   notifyVars, commandVars, settingsVars, setVars, exitCode>>

\* handle.onData(callback), with a callback that records what it is given;
\* `since` is the number of chunks read before it was registered.
OnData ==
    /\ Len(dataCallbacks) < MaxSlots
    /\ dataCallbacks' =
          Append(dataCallbacks, [since |-> Len(delivered), got |-> <<>>])
    /\ UNCHANGED <<stdout, delivered, exitCallbacks, exited, exitHandled,
                   storeVars, notifyVars, commandVars, settingsVars, setVars, exitCode>>

\* handle.onExit(callback), with a callback that records what it is given;
\* `early` tells whether it was registered before the exit was handled.
OnExit ==
    /\ Len(exitCallbacks) < MaxSlots
    /\ exitCallbacks' = Append(exitCallbacks, [early |-> ~exitHandled,
                                               got |-> <<>>])
    /\ UNCHANGED <<stdout, delivered, dataCallbacks, exited, exitHandled,
                   storeVars, notifyVars, commandVars, settingsVars, setVars, exitCode>>

\* The process exits, by itself or after handle.kill(): proc.exited
\* resolves.
PtyExit ==
    \E code \in {0, 1} :
        /\ exited = Null
        /\ exited' = Some(code)
        /\ UNCHANGED <<stdout, delivered, dataCallbacks, exitCallbacks,
                       exitHandled, storeVars, notifyVars, commandVars, settingsVars, setVars, exitCode>>

\* The `then` callback of proc.exited runs, once: every callback of
\* exitCallbacks is called with the code.
ExitThen ==
    /\ exited # Null
    /\ ~exitHandled
    /\ exitHandled' = TRUE
    /\ exitCallbacks' = deliver(exitCallbacks, exited[1])
    /\ UNCHANGED <<stdout, delivered, dataCallbacks, exited, storeVars,
                   notifyVars, commandVars, settingsVars, setVars, exitCode>>

NextPty ==
    \/ PtyOutput
    \/ ReadStdout
    \/ OnData
    \/ OnExit
    \/ PtyExit
    \/ ExitThen

SpecPty == Init /\ [][NextPty]_vars

----------------------------------------------------------------------------
\* C22: once the exit of the process has been handled, every callback
\* registered with onExit has been invoked exactly once with the exit code,
\* whether it was registered before or after the process exited.
C22_ExitCallbackOnce ==
    exitHandled =>
        \A i \in DOMAIN exitCallbacks : exitCallbacks[i].got = <<exited[1]>>

\* C22, for the callbacks registered before the exit was handled: each has
\* been invoked exactly once, with the exit code, when the exit has been
\* handled and not at all before; the others have not been invoked.
C22_ExitCallbackRegisteredBefore ==
    \A i \in DOMAIN exitCallbacks :
        exitCallbacks[i].got =
            IF exitHandled /\ exitCallbacks[i].early THEN <<exited[1]>>
            ELSE <<>>

----------------------------------------------------------------------------
----------------------------------------------------------------------------
\* Settings: JsonSettingsAdapter.  A settings object is a function from its
\* keys to their values; the content of the settings file is a text that
\* JSON.parse rejects, [text |-> ...], or the JSON document of a value,
\* [json |-> ...]; a JSON value is null, [type |-> "null"], or an object,
\* [type |-> "object", members |-> ...].

defaults ==
    [theme |-> "tokyo-night", fontSize |-> 14, fontFamily |-> "monospace",
     tabSize |-> 2, insertSpaces |-> TRUE, wordWrap |-> "word",
     lineNumbers |-> TRUE, relativeLine |-> FALSE, cursorStyle |-> "block",
     cursorBlink |-> TRUE, keybindings |-> <<>>, recentWorkspaces |-> <<>>,
     lspServers |->
        [typescript |-> [language |-> "typescript",
                         command |-> "typescript-language-server",
                         args |-> <<"--stdio">>],
         python |-> [language |-> "python", command |-> "pylsp",
                     args |-> <<>>],
         go |-> [language |-> "go", command |-> "gopls", args |-> <<>>]]]

\* Mutant of spread: the keys of the first object only.
spread_KnownKeys(a, b) ==
    [k \in DOMAIN a |-> IF k \in DOMAIN b THEN b[k] ELSE a[k]]

\* { ...a, ...b } for objects a and b
spread(a, b) ==
    [k \in DOMAIN a \cup DOMAIN b |-> IF k \in DOMAIN b THEN b[k] ELSE a[k]]

\* JSON.stringify of a settings object
JSONstringify(object) == [json |-> [type |-> "object", members |-> object]]

\* What load assigns to this.cache and returns, for the file `file`: when
\* the file exists and JSON.parse does not throw, the defaults with the own
\* properties of the parsed value (those of an object, none of null) spread
\* over them; otherwise a copy of the defaults.
load(file) ==
    LET none == [k \in {} |-> k]
    IN IF file # Null /\ "json" \in DOMAIN file[1]
       THEN spread(defaults, IF file[1].json.type = "object"
                             THEN file[1].json.members ELSE none)
       ELSE spread(defaults, none)

\* The settings file as an earlier run left it, before the adapter is used:
\* a truncated document, the document of null, or the document of an object
\* with any of theme, tabSize and zoom (not a key of Settings), each with a
\* value other than the default.
PersistedFile ==
    \E content \in
          {[text |-> "{"], [json |-> [type |-> "null"]]}
             \cup {JSONstringify([k \in keys |->
                                     CASE k = "theme" -> "dracula"
                                       [] k = "tabSize" -> 4
                                       [] k = "zoom" -> 1]) :
                      keys \in SUBSET {"theme", "tabSize", "zoom"}} :
        /\ cache = Null /\ settingsFile = Null /\ setting = Null
        /\ returned.call = "none"
        /\ settingsFile' = Some(content)
        /\ UNCHANGED <<cache, setting, returned, storeVars, notifyVars,
                       commandVars, ptyVars, setVars, exitCode>>

\* settings.load()
Load ==
    /\ setting = Null
    /\ cache' = Some(load(settingsFile))
    /\ returned' = [call |-> "load", value |-> load(settingsFile)]
    /\ UNCHANGED <<settingsFile, setting, storeVars, notifyVars, commandVars,
                   ptyVars, setVars, exitCode>>

\* settings.get(key)
Get ==
    \E key \in DOMAIN defaults :
        /\ setting = Null
        /\ cache' = IF cache = Null THEN Some(load(settingsFile)) ELSE cache
        /\ returned' = [call |-> "get", key |-> key, value |-> cache'[1][key],
                        miss |-> cache = Null]
        /\ UNCHANGED <<settingsFile, setting, storeVars, notifyVars,
                       commandVars, ptyVars, setVars, exitCode>>

\* settings.set(key, value) up to the write of save: the cache is loaded when
\* empty, the value assigned to the cached object, the directory made.
SetStart ==
    \E call \in {[key |-> "theme", value |-> "dracula"],
                 [key |-> "theme", value |-> "nord"],
                 [key |-> "tabSize", value |-> 4]} :
        /\ setting = Null
        /\ cache' = Some([(IF cache = Null THEN load(settingsFile)
                           ELSE cache[1]) EXCEPT ![call.key] = call.value])
        /\ setting' = Some(call)
        /\ returned' = [call |-> "pending"]
        /\ UNCHANGED <<settingsFile, storeVars, notifyVars, commandVars,
                       ptyVars, setVars, exitCode>>

\* Bun.write of save settles: when it resolved the file holds the document
\* of the cached object and save assigns it to the cache; when it rejected
\* the file is as before and set rejects.
SetSettle ==
    \E ok \in BOOLEAN :
        /\ setting # Null
        /\ settingsFile' = IF ok THEN Some(JSONstringify(cache[1]))
                           ELSE settingsFile
        /\ setting' = Null
        /\ returned' = [call |-> "set", key |-> setting[1].key,
                        value |-> setting[1].value, ok |-> ok]
        /\ UNCHANGED <<cache, storeVars, notifyVars, commandVars, ptyVars, setVars, exitCode>>

NextSettings ==
    \/ PersistedFile
    \/ Load
    \/ Get
    \/ SetStart
    \/ SetSettle

SpecSettings == Init /\ [][NextSettings]_vars

----------------------------------------------------------------------------
\* C24: settings.set(key, value) keeps the cache and the persisted record in
\* agreement: after it completed both hold the new value, and after it
\* failed because the write failed, the cache holds no value that the
\* persisted record does not give.
C24_SetKeepsCacheAndFileInAgreement ==
    returned.call = "set" =>
        /\ returned.ok =>
              /\ cache[1][returned.key] = returned.value
              /\ load(settingsFile)[returned.key] = returned.value
        /\ ~returned.ok => cache[1] = load(settingsFile)

\* C24, for the calls of set whose write succeeded.
C24_SetThatSucceeded ==
    (returned.call = "set" /\ returned.ok) =>
        /\ cache[1][returned.key] = returned.value
        /\ load(settingsFile)[returned.key] = returned.value
        /\ cache[1] = load(settingsFile)

----------------------------------------------------------------------------
\* C25: settings.load returns the persisted record merged over the defaults:
\* every default key is present, a key of the persisted object has the
\* persisted value, unknown persisted keys are kept, and a missing or
\* unparsable file yields exactly the defaults; get on an empty cache gives
\* the value a load gives.
C25_LoadMergesOverDefaults ==
    /\ returned.call = "load" =>
          LET object == IF settingsFile # Null
                           /\ "json" \in DOMAIN settingsFile[1]
                           /\ settingsFile[1].json.type = "object"
                        THEN settingsFile[1].json.members
                        ELSE [k \in {} |-> k]
          IN /\ DOMAIN defaults \subseteq DOMAIN returned.value
             /\ \A k \in DOMAIN object : /\ k \in DOMAIN returned.value
                                         /\ returned.value[k] = object[k]
             /\ \A k \in DOMAIN returned.value \ DOMAIN object :
                   k \in DOMAIN defaults /\ returned.value[k] = defaults[k]
             /\ (settingsFile = Null \/ "text" \in DOMAIN settingsFile[1]) =>
                   returned.value = defaults
             /\ cache = Some(returned.value)
    /\ (returned.call = "get" /\ returned.miss) =>
          /\ cache # Null
          /\ returned.value =
                IF settingsFile # Null /\ "json" \in DOMAIN settingsFile[1]
                   /\ settingsFile[1].json.type = "object"
                   /\ returned.key \in DOMAIN settingsFile[1].json.members
                THEN settingsFile[1].json.members[returned.key]
                ELSE defaults[returned.key]

\* load has just returned for a file that holds theme and zoom but not
\* tabSize.
C25_Witness ==
    /\ returned.call = "load"
    /\ settingsFile = Some(JSONstringify([theme |-> "dracula", zoom |-> 1]))
    /\ returned.value.theme = "dracula"
    /\ returned.value.zoom = 1
    /\ returned.value.tabSize = 2

----------------------------------------------------------------------------
\* Directory tree: appReducer applied to snapshots that hold a tree

\* Directory trees as buildTree makes them, with any expansion flags: the
\* directory /w alone, /w with the directory /w/a not read, and /w with the
\* directory /w/a, holding the file /w/a/f, and the file /w/b.
Trees ==
    LET node(path, type, children, isExpanded) ==
            [entry |-> [name |-> basename(path), path |-> path,
                        type |-> type],
             children |-> children, isExpanded |-> isExpanded]
        w == <<"/","w">>
    IN {node(w, "directory", <<>>, e) : e \in BOOLEAN}
       \cup {node(w, "directory",
                  <<node(w \o <<"/","a">>, "directory", <<>>, e2)>>, e1) :
                e1, e2 \in BOOLEAN}
       \cup {node(w, "directory",
                  <<node(w \o <<"/","a">>, "directory",
                         <<node(w \o <<"/","a","/","f">>, "file", <<>>,
                                FALSE)>>, e2),
                    node(w \o <<"/","b">>, "file", <<>>, FALSE)>>, e1) :
                e1, e2 \in BOOLEAN}

\* A snapshot with the workspace /w, without a tree or with one of Trees.
InitTree ==
    \E tree \in {Null} \cup {Some(t) : t \in Trees} :
        InitAt([createInitialState EXCEPT
                   !.workspace = [rootPath |-> Some(<<"/","w">>),
                                  directoryTree |-> tree]])

\* TOGGLE_DIRECTORY for the path of a directory, of a file, or of no node.
ToggleDirectory ==
    \E path \in {<<"/","w">>, <<"/","w","/","a">>, <<"/","w","/","b">>,
                 <<"/","w","/","a","/","f">>, <<"/","w","/","x">>} :
        /\ last' = [type |-> "TOGGLE_DIRECTORY", path |-> path]
        /\ dispatch(last')

SpecTree == InitTree /\ [][ToggleDirectory]_vars

----------------------------------------------------------------------------
\* C26: TOGGLE_DIRECTORY for path P flips the expanded flag of exactly the
\* node whose path equals P and leaves every other node's flag, and every
\* node's entry and number of children, unchanged; when no node has path P
\* or no tree is loaded the tree is unchanged; a second TOGGLE_DIRECTORY P
\* restores the tree.
C26_ToggleDirectory ==
    last.type = "TOGGLE_DIRECTORY" =>
        LET before == prev.workspace.directoryTree
            after == state.workspace.directoryTree
            \* the nodes of a tree, by their positions: the root, its
            \* children, their children
            at(tree, pos) ==
                CASE Len(pos) = 0 -> tree
                  [] Len(pos) = 1 -> tree.children[pos[1]]
                  [] Len(pos) = 2 -> tree.children[pos[1]].children[pos[2]]
            positions(tree) ==
                {<<>>} \cup {<<i>> : i \in DOMAIN tree.children}
                \cup UNION {{<<i, j>> :
                                j \in DOMAIN tree.children[i].children} :
                            i \in DOMAIN tree.children}
        IN /\ ~raised
           /\ state = [prev EXCEPT !.workspace.directoryTree = after]
           /\ before = Null => after = Null
           /\ before # Null =>
                 /\ after # Null
                 /\ positions(after[1]) = positions(before[1])
                 /\ \A pos \in positions(before[1]) :
                       /\ at(after[1], pos).entry = at(before[1], pos).entry
                       /\ at(after[1], pos).isExpanded =
                             IF at(before[1], pos).entry.path = last.path
                             THEN ~at(before[1], pos).isExpanded
                             ELSE at(before[1], pos).isExpanded
                 /\ (\A pos \in positions(before[1]) :
                        at(before[1], pos).entry.path # last.path) =>
                       after = before
           /\ appReducer(state, last, bufferId, tabId, terminalId).state
                 = prev

\* /w/a has just been collapsed in the tree whose directories were expanded.
C26_Witness ==
    /\ last = [type |-> "TOGGLE_DIRECTORY", path |-> <<"/","w","/","a">>]
    /\ prev.workspace.directoryTree # Null
    /\ Len(prev.workspace.directoryTree[1].children) = 2
    /\ prev.workspace.directoryTree[1].isExpanded
    /\ prev.workspace.directoryTree[1].children[1].isExpanded
    /\ state.workspace.directoryTree[1].isExpanded
    /\ ~state.workspace.directoryTree[1].children[1].isExpanded
    /\ state.workspace.directoryTree[1].children[1].children
          = prev.workspace.directoryTree[1].children[1].children

----------------------------------------------------------------------------
\* C27: when file.open completes for an existing, readable file at path P
\* that was not open, the buffer whose filePath is P holds the content read
\* from the file, carried by the OPEN_FILE action, and is not dirty.
C27_OpenedBufferHoldsFileContent ==
    (/\ last.type = "settle"
     /\ last.task.command = "file.open"
     /\ last.task.awaiting = "readFile"
     /\ last.ok
     /\ \A i \in DOMAIN prev.buffers :
           prev.buffers[i].value.filePath # Some(last.task.path)) =>
        \E i \in DOMAIN state.buffers :
            /\ state.buffers[i].value.filePath = Some(last.task.path)
            /\ Some(state.buffers[i].value.content) = files[last.task.path]
            /\ ~state.buffers[i].value.isDirty

\* C27, without the content: the buffer is there and is not dirty.
C27_OpenedBufferIsThere ==
    (/\ last.type = "settle"
     /\ last.task.command = "file.open"
     /\ last.task.awaiting = "readFile"
     /\ last.ok
     /\ \A i \in DOMAIN prev.buffers :
           prev.buffers[i].value.filePath # Some(last.task.path)) =>
        \E i \in DOMAIN state.buffers :
            /\ state.buffers[i].value.filePath = Some(last.task.path)
            /\ ~state.buffers[i].value.isDirty

----------------------------------------------------------------------------
\* C28: file.open on path P followed by file.save, with no change of the
\* buffer's content in between, leaves the content of the file at P as it
\* was: where no action changes the content of a buffer, every file holds
\* what it held at the start.
C28_OpenThenSaveKeepsFile ==
    files = [path \in Paths |-> IF path = PathA THEN Some("x") ELSE Null]

----------------------------------------------------------------------------
\* C29: once a file.save has completed, whatever SET_BUFFER_CONTENT
\* dispatches for the buffer came between its read of the buffer and its
\* SAVE_FILE, the buffer's dirty flag is false only if its content is the
\* content that was written to the file.
C29_CleanOnlyIfWritten ==
    (/\ last.type = "settle"
     /\ last.task.command = "file.save"
     /\ last.ok) =>
        \A i \in DOMAIN state.buffers :
            (/\ state.buffers[i].key = last.task.bufferId
             /\ ~state.buffers[i].value.isDirty) =>
                /\ state.buffers[i].value.content = last.task.content
                /\ files[last.task.path] = Some(last.task.content)

\* C29, for the file alone: after the save the file holds the content the
\* command read from the buffer.
C29_FileHoldsWhatWasRead ==
    (/\ last.type = "settle"
     /\ last.task.command = "file.save"
     /\ last.ok) =>
        files[last.task.path] = Some(last.task.content)

----------------------------------------------------------------------------
\* C30: for every interleaving of two or more file.open executions running
\* at a time for the same existing path, once they have completed there is
\* exactly one buffer and exactly one tab for that path, and that tab is
\* active.
C30_ConcurrentOpensOneBuffer ==
    /\ \A path \in Paths :
          /\ Cardinality({i \in DOMAIN state.buffers :
                 state.buffers[i].value.filePath = Some(path)}) <= 1
          /\ \A i \in DOMAIN state.buffers :
                state.buffers[i].value.filePath = Some(path) =>
                    Cardinality({j \in DOMAIN tabsOf(state) :
                        tabsOf(state)[j].bufferId = state.buffers[i].key}) = 1
    /\ (/\ last.type = "settle"
        /\ last.task.command = "file.open"
        /\ last.task.awaiting = "readFile"
        /\ last.ok) =>
          \E i \in DOMAIN state.buffers, j \in DOMAIN tabsOf(state) :
              /\ state.buffers[i].value.filePath = Some(last.task.path)
              /\ tabsOf(state)[j].bufferId = state.buffers[i].key
              /\ tabsOf(state)[j].isActive
              /\ paneOf(state).activeTabId = tabsOf(state)[j].id

\* The second of two file.open executions for /a.ts that ran at a time has
\* just completed: it started when the file was not open, the other one
\* opened the file meanwhile, and none is running any more.
C30_Witness ==
    /\ last.type = "settle"
    /\ last.task.command = "file.open"
    /\ last.task.awaiting = "readFile"
    /\ last.ok
    /\ last.task.path = PathA
    /\ ~last.task.wasOpen
    /\ Len(prev.buffers) = 1
    /\ prev.buffers[1].value.filePath = Some(PathA)
    /\ tasks = <<>>
    /\ Len(state.buffers) = 1
    /\ Len(tabsOf(state)) = 1

----------------------------------------------------------------------------
\* Key bindings, the command line and the palette

\* The handler useKeybindings gives to useKeyboard, for one key event on
\* snapshot s: what the command it executes does up to its first await.
\* AppState declares filePicker and themePicker, the snapshot may not have
\* them: reading `.isOpen` of undefined throws a TypeError out of the
\* handler.
useKeybindings(key, s) ==
    CASE key = "escape" ->
            IF s.commandLine.isOpen THEN execute("commandLine.close", <<>>, s)
            ELSE IF s.palette.isOpen THEN execute("palette.close", <<>>, s)
            ELSE IF "filePicker" \notin DOMAIN s
            THEN effect(<<>>, Null, Some("TypeError"))
            ELSE IF s.filePicker.isOpen
            THEN execute("filePicker.close", <<>>, s)
            ELSE IF "themePicker" \notin DOMAIN s
            THEN effect(<<>>, Null, Some("TypeError"))
            ELSE IF s.themePicker.isOpen
            THEN execute("themePicker.close", <<>>, s)
            ELSE IF s.focusTarget = "editor"
            THEN effect(<<[type |-> "SET_FOCUS", target |-> "editor"]>>,
                        Null, Null)
            ELSE effect(<<>>, Null, Null)
      [] key = ":" ->
            IF s.focusTarget \notin {"commandLine", "palette"}
            THEN execute("commandLine.open", <<>>, s)
            ELSE effect(<<>>, Null, Null)
      [] key = "ctrl+n" -> execute("file.new", <<>>, s)
      [] key = "ctrl+o" -> execute("filePicker.open", <<>>, s)
      [] key = "ctrl+p" -> execute("palette.open", <<>>, s)
      [] key = "ctrl+k" -> execute("themePicker.open", <<>>, s)
      [] key = "ctrl+shift+e" -> execute("focus.explorer", <<>>, s)
      [] key = "ctrl+backquote" -> execute("terminal.open", <<>>, s)

\* One key event.
KeyPress ==
    \E key \in {"escape", ":", "ctrl+n", "ctrl+o", "ctrl+p", "ctrl+k",
                "ctrl+shift+e", "ctrl+backquote"} :
        \E r \in {useKeybindings(key, state)} :
           /\ handle([type |-> "key", key |-> key, logged |-> r.logged], r)
           /\ UNCHANGED commandVars

\* CommandLine onChange, while the command line is shown: "term" or
\* ":terminal" is typed.
TypeTerm ==
    \E text \in {<<"t","e","r","m">>,
                 <<":","t","e","r","m","i","n","a","l">>} :
        /\ state.commandLine.isOpen
        /\ last' = [type |-> "SET_COMMAND_LINE_VALUE", value |-> text]
        /\ dispatch(last')

\* Palette handleKeyDown for return on the selected item: the item's
\* action, commandRegistry.execute(cmd.id), then onClose, which dispatches
\* CLOSE_PALETTE.
ChoosePalette ==
    \E id \in {"terminal.open", "focus.explorer", "commandLine.open",
               "file.new"} :
        \E r \in {execute(id, <<>>, state)} :
           /\ state.palette.isOpen
           /\ handle([type |-> "choose", id |-> id, logged |-> r.logged],
                     [r EXCEPT !.actions =
                                  Append(@, [type |-> "CLOSE_PALETTE"])])
           /\ UNCHANGED commandVars

\* The keyboard: key bindings, the command line and the palette.
NextKeys ==
    \/ KeyPress
    \/ TypeTerm
    \/ SubmitCommandLine
    \/ ChoosePalette

SpecKeys == Init /\ [][NextKeys]_vars

----------------------------------------------------------------------------
\* C31: when a command is submitted from the command line or chosen in the
\* palette, the focus set by the command's own transitions is the focus that
\* remains once the submission has been handled: after ":term" or the
\* palette's terminal.open the new terminal is active and focusTarget is
\* "terminal"; after the palette's focus.explorer it is "explorer", after
\* its commandLine.open it is "commandLine".
C31_SubmitKeepsCommandFocus ==
    LET did == executeCommandLine(last.input)
        chosen == IF last.type = "choose" THEN last.id
                  ELSE IF last.type = "onSubmit" /\ did.do = "execute"
                  THEN did.id
                  ELSE "none"
    IN /\ chosen = "terminal.open" =>
            /\ state.focusTarget = "terminal"
            /\ \E i \in DOMAIN state.terminals :
                  state.terminals[i].value.isActive
       /\ chosen = "focus.explorer" => state.focusTarget = "explorer"
       /\ chosen = "commandLine.open" => state.focusTarget = "commandLine"

\* C31, what does hold: the command has run (a terminal was added and is the
\* active one) and the overlay's close transition has set the focus.
C31_CloseTransitionSetsFocus ==
    LET did == executeCommandLine(last.input)
        chosen == IF last.type = "choose" THEN last.id
                  ELSE IF last.type = "onSubmit" /\ did.do = "execute"
                  THEN did.id
                  ELSE "none"
    IN /\ last.type \in {"choose", "onSubmit"} =>
            /\ state.focusTarget = "editor"
            /\ ~state.commandLine.isOpen \/ last.type = "choose"
            /\ ~state.palette.isOpen \/ last.type = "onSubmit"
       /\ chosen = "terminal.open" =>
            /\ Len(state.terminals) = Len(prev.terminals) + 1
            /\ state.terminals[Len(state.terminals)].value.isActive

\* C32: in every reachable state at most one overlay is open, and whenever
\* an overlay is open focusTarget names that overlay.
C32_OneOverlayOwnsFocus ==
    /\ ~(state.commandLine.isOpen /\ state.palette.isOpen)
    /\ state.commandLine.isOpen => state.focusTarget = "commandLine"
    /\ state.palette.isOpen => state.focusTarget = "palette"

\* C32, what does hold: the transition that opens an overlay gives it the
\* focus, the one that closes an overlay gives the focus to the editor.
C32_OpenGivesFocus ==
    /\ last.type = "key" /\ last.key = "ctrl+p" =>
          state.palette.isOpen /\ state.focusTarget = "palette"
    /\ last.type = "key" /\ last.key = ":"
            /\ prev.focusTarget \notin {"commandLine", "palette"} =>
          state.commandLine.isOpen /\ state.focusTarget = "commandLine"
    /\ last.type = "key" /\ last.key = "escape"
            /\ (prev.commandLine.isOpen \/ prev.palette.isOpen) =>
          state.focusTarget = "editor"

\* C33: in every reachable state, the initial one included, the state has
\* filePicker and themePicker records with a boolean isOpen; filePicker.open
\* (Ctrl+O) and themePicker.open (Ctrl+K) make the corresponding isOpen
\* true, so that the Escape handler's read of state.filePicker.isOpen is
\* defined.
C33_PickersInState ==
    /\ {"filePicker", "themePicker"} \subseteq DOMAIN state
    /\ state.filePicker.isOpen \in BOOLEAN
    /\ state.themePicker.isOpen \in BOOLEAN
    /\ last.type = "key" /\ last.key = "ctrl+o" => state.filePicker.isOpen
    /\ last.type = "key" /\ last.key = "ctrl+k" => state.themePicker.isOpen
    /\ ~(last.type = "key" /\ last.logged = Some("TypeError"))

\* C33, what does hold: no snapshot has either record, and the commands of
\* the pickers leave the snapshot as it was.
C33_PickerCommandsChangeNothing ==
    /\ DOMAIN state \cap {"filePicker", "themePicker"} = {}
    /\ last.type = "key" /\ last.key \in {"ctrl+o", "ctrl+k"} =>
          state = prev

----------------------------------------------------------------------------
\* The workspace: App's loadWorkspace effect and the explorer

\* The dispatches of the workspace: SET_WORKSPACE with the working directory
\* (loadWorkspace before its await), SET_DIRECTORY_TREE with the tree built
\* (loadWorkspace after it), LOAD_DIRECTORY_CHILDREN with the entries listed
\* (TreeView handleClick on a directory, after its await).
DispatchWorkspace ==
    \E action \in
          {[type |-> "SET_WORKSPACE", path |-> p] :
              p \in {<<"/","w">>, <<"/","v">>}}
          \cup {[type |-> "SET_DIRECTORY_TREE", tree |-> tree] :
                   tree \in Trees}
          \cup {[type |-> "LOAD_DIRECTORY_CHILDREN", path |-> p,
                 children |-> c] :
                   p \in {<<"/","w">>, <<"/","w","/","a">>},
                   c \in {<<>>,
                          <<[entry |-> [name |-> <<"f">>,
                                        path |-> <<"/","w","/","f">>,
                                        type |-> "file"],
                             children |-> <<>>,
                             isExpanded |-> FALSE]>>}} :
        /\ last' = action
        /\ dispatch(last')

\* The workspace from start-up on, with directories clicked in the explorer
\* and the focus moved between editor and explorer.
SpecWorkspace ==
    Init /\ [][DispatchWorkspace \/ ToggleDirectory \/ SetFocus]_vars

----------------------------------------------------------------------------
\* C34: after SET_WORKSPACE path the workspace rootPath is path and the
\* directory tree is null; after a following SET_DIRECTORY_TREE tree the
\* workspace directoryTree equals tree; LOAD_DIRECTORY_CHILDREN path children
\* sets the children of the node at path (the root or one of its children).
C34_WorkspaceActions ==
    LET tree == state.workspace.directoryTree
    IN /\ last.type = "SET_WORKSPACE" =>
            state.workspace = [rootPath |-> Some(last.path),
                               directoryTree |-> Null]
       /\ last.type = "SET_DIRECTORY_TREE" => tree = Some(last.tree)
       /\ last.type = "LOAD_DIRECTORY_CHILDREN" /\ tree # Null =>
            /\ tree[1].entry.path = last.path =>
                  tree[1].children = last.children
            /\ \A i \in DOMAIN tree[1].children :
                  tree[1].children[i].entry.path = last.path =>
                     tree[1].children[i].children = last.children

\* C34, what does hold: SET_WORKSPACE sets the root path and the tree to
\* null, and no state reached from start-up has a tree.
C34_SetWorkspace ==
    /\ state.workspace.directoryTree = Null
    /\ last.type = "SET_WORKSPACE" =>
          /\ state.workspace.rootPath = Some(last.path)
          /\ state = [prev EXCEPT !.workspace = state.workspace]
    /\ last.type \in {"SET_DIRECTORY_TREE", "LOAD_DIRECTORY_CHILDREN",
                      "TOGGLE_DIRECTORY"} => state = prev

----------------------------------------------------------------------------
\* C35: for a PTY process every onData delivery to a listener precedes the
\* onExit delivery: once the exit callbacks have run no data callback is
\* invoked any more.
C35_NoDataAfterExit ==
    [][exitHandled =>
          \A i \in DOMAIN dataCallbacks :
              dataCallbacks'[i].got = dataCallbacks[i].got]_vars

\* C35, what does hold: the exit callbacks run once, after the process has
\* exited, and the chunks read after that were written before the exit.
C35_OneExitEvent ==
    [][/\ exitHandled =>
             /\ exitHandled'
             /\ \A i \in DOMAIN exitCallbacks :
                   exitCallbacks'[i].got = exitCallbacks[i].got
       /\ exited # Null => Len(delivered') + Len(stdout')
                              = Len(delivered) + Len(stdout)]_vars

----------------------------------------------------------------------------
\* C39: in every reachable state with at least one terminal exactly one
\* terminal is active, and in every reachable state at most one is active,
\* for all sequences of OPEN_TERMINAL, CLOSE_TERMINAL and FOCUS_TERMINAL
\* with arbitrary terminal ids.
C39_ExactlyOneActiveTerminal ==
    LET active == {i \in DOMAIN state.terminals :
                      state.terminals[i].value.isActive}
    IN /\ Cardinality(active) <= 1
       /\ state.terminals # <<>> => Cardinality(active) = 1

\* C39, what does hold: at most one terminal is active, and exactly one as
\* long as no FOCUS_TERMINAL has named a terminal that is not open.
C39_AtMostOneActiveTerminal ==
    LET active == {i \in DOMAIN state.terminals :
                      state.terminals[i].value.isActive}
    IN /\ Cardinality(active) <= 1
       /\ last.type \in {"OPEN_TERMINAL", "CLOSE_TERMINAL"}
             /\ (prev.terminals # <<>> =>
                    \E i \in DOMAIN prev.terminals :
                        prev.terminals[i].value.isActive)
             /\ state.terminals # <<>> => Cardinality(active) = 1
       /\ last.type = "FOCUS_TERMINAL"
             /\ MapHas(prev.terminals, last.terminalId) =>
                 active = {i \in DOMAIN state.terminals :
                              state.terminals[i].key = last.terminalId}

----------------------------------------------------------------------------
\* Concurrent calls of settings.set.  The settings objects are kept in
\* `objects` and referred to by their place there, so that two calls holding
\* the same object see each other's assignments.

\* settings.set(key, value) is called, each call with a key of its own, while
\* at most one other call is in progress.  With a cache the call assigns the
\* value to the cached object and runs save up to `await proc.exited`;
\* without one it runs load up to `await file.text()`.
SetCall ==
    \E call \in {[key |-> "theme", value |-> "dracula"],
                 [key |-> "tabSize", value |-> 4],
                 [key |-> "fontSize", value |-> 16]} :
        /\ \A i \in DOMAIN calls : calls[i].key # call.key
        /\ Cardinality({i \in DOMAIN calls : calls[i].pc # "done"}) < 2
        /\ calls' = Append(calls,
                           [key |-> call.key, value |-> call.value,
                            miss |-> thisCache = 0,
                            pc |-> IF thisCache = 0 THEN "text" ELSE "mkdir",
                            settings |-> thisCache, data |-> Null])
        /\ objects' = IF thisCache = 0 THEN objects
                      ELSE [objects EXCEPT ![thisCache][call.key] = call.value]
        /\ UNCHANGED <<thisCache, settingsVars, storeVars, notifyVars,
                       commandVars, ptyVars, exitCode>>

\* The operation a call of set awaits settles and the call goes on to its
\* next await:
\*   "text"   file.text() has read the file (or exists() found none);
\*   "parse"  load makes its object, assigns it to this.cache and returns;
\*   "loaded" set, after `await this.load()`, assigns the value to the
\*            object this.cache refers to now and calls save with it;
\*   "mkdir"  save, after `await proc.exited`, calls Bun.write with the
\*            document of its argument as it is now;
\*   "write"  the write is done, the file holds the document, and save
\*            assigns its argument to this.cache.
SetResume ==
    \E i \in DOMAIN calls :
        \E call \in {calls[i]} :
           /\ call.pc # "done"
           /\ calls' =
                 [calls EXCEPT ![i] =
                     CASE call.pc = "text" ->
                             [call EXCEPT !.pc = "parse",
                                          !.data = Some(settingsFile)]
                       [] call.pc = "parse" ->
                             [call EXCEPT !.pc = "loaded", !.data = Null]
                       [] call.pc = "loaded" ->
                             [call EXCEPT !.pc = "mkdir",
                                          !.settings = thisCache]
                       [] call.pc = "mkdir" ->
                             [call EXCEPT
                                 !.pc = "write",
                                 !.data =
                                    Some(JSONstringify(objects[call.settings]))]
                       [] call.pc = "write" ->
                             [call EXCEPT !.pc = "done", !.data = Null]]
           /\ objects' =
                 CASE call.pc = "parse" -> Append(objects, load(call.data[1]))
                   [] call.pc = "loaded" ->
                         [objects EXCEPT ![thisCache][call.key] = call.value]
                   [] OTHER -> objects
           /\ thisCache' =
                 CASE call.pc = "parse" -> Len(objects) + 1
                   [] call.pc = "write" -> call.settings
                   [] OTHER -> thisCache
           /\ settingsFile' = IF call.pc = "write" THEN call.data
                              ELSE settingsFile
           /\ UNCHANGED <<cache, setting, returned, storeVars, notifyVars,
                          commandVars, ptyVars, exitCode>>

NextConcurrent ==
    \/ SetCall
    \/ SetResume

SpecConcurrent == Init /\ [][NextConcurrent]_vars

----------------------------------------------------------------------------
\* C36: for every interleaving of two concurrent settings.set calls on
\* different keys, the calls made with an empty cache (each first awaiting
\* load) included, after both complete the cache and the persisted record
\* both contain both new values.
C36_NoLostUpdate ==
    calls # <<>> /\ (\A i \in DOMAIN calls : calls[i].pc = "done") =>
        \A i \in DOMAIN calls :
            /\ objects[thisCache][calls[i].key] = calls[i].value
            /\ settingsFile[1].json.members[calls[i].key] = calls[i].value

\* C36, for calls made once the cache is loaded: when at most one call had
\* to load, the cached object holds the value of every completed call once
\* no call is in progress.
C36_CacheOnceLoaded ==
    /\ calls # <<>>
    /\ \A i \in DOMAIN calls : calls[i].pc = "done"
    /\ Cardinality({i \in DOMAIN calls : calls[i].miss}) <= 1
    => \A i \in DOMAIN calls :
          objects[thisCache][calls[i].key] = calls[i].value

----------------------------------------------------------------------------
\* The command theme.set

\* theme.set with a theme name (":theme dracula"), while no call of
\* settings.set is in progress: SET_THEME is dispatched, then
\* settings.set("theme", name) runs up to the write of save, as in SetStart.
\* "nope" is not the id of a theme.
ThemeSet ==
    \E themeName \in {"dracula", "one-light", "nope"} :
        /\ setting = Null
        /\ last' = [type |-> "SET_THEME", themeId |-> themeName]
        /\ reduce(last')
        /\ cache' = Some([(IF cache = Null THEN load(settingsFile)
                           ELSE cache[1]) EXCEPT !.theme = themeName])
        /\ setting' = Some([key |-> "theme", value |-> themeName])
        /\ returned' = [call |-> "pending"]
        /\ UNCHANGED <<settingsFile, notifyVars, commandVars, ptyVars,
                       setVars, exitCode>>

\* theme.set over a settings file an earlier run may have left; the save of
\* settings.set resolves or rejects.
NextTheme ==
    \/ PersistedFile
    \/ ThemeSet
    \/ SetSettle

SpecTheme == Init /\ [][NextTheme]_vars

----------------------------------------------------------------------------
\* C37: after theme.set <name> completes, the persisted settings theme id
\* equals state.theme.id: a name that is not the id of a known theme changes
\* neither the state theme nor the persisted setting.
C37_PersistedThemeIsStateTheme ==
    returned.call = "set" /\ returned.key = "theme" /\ returned.ok =>
        settingsFile[1].json.members.theme = state.theme

\* C37, what does hold: after theme.set <name> has completed the persisted
\* theme is <name>; the state theme is <name> when it is the id of a theme
\* and is what it was otherwise.
C37_PersistedThemeIsName ==
    returned.call = "set" /\ returned.key = "theme" /\ returned.ok =>
        /\ settingsFile[1].json.members.theme = returned.value
        /\ cache[1].theme = returned.value
        /\ state.theme = IF returned.value \in {"dracula", "one-light"}
                         THEN returned.value ELSE prev.theme

----------------------------------------------------------------------------
\* The command file.saveAndQuit

\* commandRegistry.execute("file.saveAndQuit") (":wq"), up to its first
\* await.
SaveAndQuit ==
    \E r \in {execute("file.saveAndQuit", <<>>, state)} :
       /\ Len(tasks) < MaxTasks
       /\ handle([type |-> "execute", id |-> "file.saveAndQuit",
                  logged |-> r.logged], r)
       /\ tasks' = tasks \o r.task
       /\ UNCHANGED <<input, parsed, files>>

\* file.saveAndQuit after `await commandRegistry.execute("file.save")`:
\* app.quit is executed, cleanupAndExit(0) destroys the renderer and calls
\* process.exit(0).  The event tells whether file.save wrote the file.
Quit ==
    \E i \in DOMAIN tasks :
        /\ tasks[i].awaiting = "file.save"
        /\ exitCode = Null
        /\ exitCode' = Some(0)
        /\ last' = [type |-> "exit", code |-> 0, wrote |-> tasks[i].wrote]
        /\ tasks' = <<>>
        /\ UNCHANGED <<state, bufferId, tabId, terminalId, raised, prev,
                       saved, input, parsed, files, notifyVars, ptyVars,
                       settingsVars, setVars>>

\* A file opened, untitled buffers created, and file.saveAndQuit.
SpecQuit ==
    Init /\ [][OpenFileToEdit \/ NewFile \/ SaveAndQuit \/ Settle
                  \/ Quit]_vars

----------------------------------------------------------------------------
\* C38: file.saveAndQuit runs file.save to completion before app.quit
\* starts, and the application exits only if the active buffer's content was
\* written to its file: when the save does not persist anything (untitled
\* buffer without path, or a rejected write) the application is not exited.
C38_ExitOnlyAfterWrite ==
    exitCode # Null => last.wrote

\* C38, what does hold: the process exits only after file.save has returned,
\* and a rejected write keeps the application running.
C38_ExitOnlyAfterSaveReturned ==
    /\ exitCode # Null => last.type = "exit" /\ tasks = <<>>
    /\ last.type = "settle" /\ last.task.command = "file.saveAndQuit"
          /\ ~last.ok => exitCode = Null /\ tasks = <<>>

----------------------------------------------------------------------------
\* Identities: buffers, tabs and terminals made and closed in any order.
SpecIds ==
    Init /\ [][OpenFileToEdit \/ NewFile \/ CloseTab \/ OpenTerminal
                  \/ CloseTerminal]_vars

\* C40: buffer, tab and terminal identities are never reused: the
\* identifiers in use are among those allocated so far (the values the
\* counters have taken), the counters never go back, every identifier a step
\* brings into the state differs from every identifier allocated earlier,
\* ids of closed tabs, buffers and terminals included, and the tab ids of a
\* pane are pairwise distinct.
C40_IdsNeverReused ==
    [][LET ids(s) == tabIdsOf(s) \cup MapKeys(s.buffers)
                        \cup MapKeys(s.terminals)
           allocated == {<<"tab", k>> : k \in 1..tabId}
                           \cup {<<"buffer", k>> : k \in 1..bufferId}
                           \cup {<<"terminal", k>> : k \in 1..terminalId}
       IN /\ ids(state) \subseteq allocated
          /\ (ids(state') \ ids(state)) \cap allocated = {}
          /\ tabId' >= tabId /\ bufferId' >= bufferId
          /\ terminalId' >= terminalId
          /\ Cardinality(tabIdsOf(state')) = Len(tabsOf(state'))
          /\ Cardinality(MapKeys(state'.buffers)) = Len(state'.buffers)
          /\ Cardinality(MapKeys(state'.terminals)) = Len(state'.terminals)
      ]_vars

\* Two tabs and a terminal have been closed; the tab and the terminal made
\* after that have identifiers of their own, tab-3 and terminal-2.
C40_Witness ==
    /\ last.type = "NEW_FILE"
    /\ idSeq(tabsOf(state)) = <<generateTabId(2)>>
    /\ tabIdsOf(prev) = {}
    /\ MapKeys(state.terminals) = {generateTerminalId(1)}
    /\ bufferId = 3

====
